---------------------------- MODULE Spec2Model ----------------------------
(***************************************************************************)
(* Heatmap visualisation pipeline of 3d-maps: colour LUT builder, KDE      *)
(* grid engine, the three pooled/batched renderers, the layer registry     *)
(* and the useHeatmapLayers controller.                                    *)
(*                                                                         *)
(* Units.  Opacity and alpha are integers in thousandths (0.55 = 550),     *)
(* which is the precision of the "rgba(r, g, b, a)" strings the code       *)
(* writes with toFixed(3).  A colour string is the tuple <<r, g, b, a>>.   *)
(* Stop positions, scores and point intensities are in hundredths.         *)
(* Latitudes and longitudes are in micro-degrees.                          *)
(***************************************************************************)
EXTENDS Integers, Sequences, FiniteSets, TLC

(***************************************************************************)
(* Bounds of the model                                                     *)
(***************************************************************************)
\* Batch size of the renderers.  The source value is 200 (constants.ts:64);
\* the renderers only compare indices against it, so the model runs them
\* with a small batch and data a few batches long.
POLYGON_BATCH_SIZE == 2
\* Grid resolution N (N x N cells).  The source default is 75.
DEFAULT_GRID_RESOLUTION == 2
\* render() / clear() / setOpacity() calls made on the renderer of SpecR.
MaxCalls == 3
\* toggleLayer() / setOpacity() calls made on the hook in Spec.
MaxOps == 2
\* toggleLayer() / setOpacity() calls made on the hook in SpecO.
MaxGridOps == 3
\* Map elements the hook is handed one after the other in SpecO.
MaxMaps == 2
\* Loader calls made on the registry in SpecG.
MaxLoads == 3
\* invalidateCache() calls made in SpecG.
MaxInvalidations == 1
\* buildColorLUT() / clearColorCache() calls made in SpecL.
MaxLutCalls == 3
\* computeHeatmapGrid() calls made in SpecK, and the points of a call.
MaxKdeCalls == 2
MaxKdePoints == 3

(***************************************************************************)
(* Program constants                                                       *)
(***************************************************************************)
KDE_CANVAS_SIZE == 512
DEFAULT_BLUR_RADIUS == 25
DEFAULT_INTENSITY_THRESHOLD == 10
DEFAULT_LAYER_OPACITY == 550
HEATMAP_ALTITUDE == 3
DOT_RADIUS_METERS == 25
CIRCLE_VERTICES == 12

\* SF_BOUNDS of constants.ts (an identifier cannot start with SF_).
SfBounds ==
  [north |-> 37812000, south |-> 37708000, east |-> -122357000, west |-> -122517000]

Min(a, b) == IF a <= b THEN a ELSE b

\* Math.round of the non-negative rational num / den (den > 0).
RoundDiv(num, den) == (2 * num + den) \div (2 * den)

(***************************************************************************)
(* Colour scales (colorScales.ts)                                          *)
(***************************************************************************)
THERMAL_STOPS ==
  << [pos |-> 0,   r |-> 0,   g |-> 0,   b |-> 0],
     [pos |-> 15,  r |-> 0,   g |-> 0,   b |-> 255],
     [pos |-> 35,  r |-> 0,   g |-> 255, b |-> 255],
     [pos |-> 55,  r |-> 0,   g |-> 255, b |-> 0],
     [pos |-> 75,  r |-> 255, g |-> 255, b |-> 0],
     [pos |-> 100, r |-> 255, g |-> 0,   b |-> 0] >>

VIRIDIS_STOPS ==
  << [pos |-> 0,   r |-> 68,  g |-> 1,   b |-> 84],
     [pos |-> 25,  r |-> 59,  g |-> 82,  b |-> 139],
     [pos |-> 50,  r |-> 33,  g |-> 145, b |-> 140],
     [pos |-> 75,  r |-> 94,  g |-> 201, b |-> 98],
     [pos |-> 100, r |-> 253, g |-> 231, b |-> 37] >>

INFERNO_STOPS ==
  << [pos |-> 0,   r |-> 0,   g |-> 0,   b |-> 4],
     [pos |-> 25,  r |-> 87,  g |-> 16,  b |-> 110],
     [pos |-> 50,  r |-> 188, g |-> 55,  b |-> 84],
     [pos |-> 75,  r |-> 249, g |-> 142, b |-> 9],
     [pos |-> 100, r |-> 252, g |-> 255, b |-> 164] >>

SCALE_STOPS ==
  [thermal |-> THERMAL_STOPS, viridis |-> VIRIDIS_STOPS, inferno |-> INFERNO_STOPS]

\* Math.round(lerp(a, b, localT)) with localT = num / den.
lerp(a, b, num, den) == RoundDiv(a * den + (b - a) * num, den)

\* sampleGradient(stops, t) at t = i / 255; positions are hundredths, so
\* t <= pos is 100 * i <= 255 * pos.
sampleGradient(stops, i) ==
  LET last == stops[Len(stops)]
      brackets == { k \in 1..(Len(stops) - 1) :
                      /\ 100 * i >= 255 * stops[k].pos
                      /\ 100 * i <= 255 * stops[k + 1].pos }
  IN  IF 100 * i <= 255 * stops[1].pos THEN <<stops[1].r, stops[1].g, stops[1].b>>
      ELSE IF 100 * i >= 255 * last.pos THEN <<last.r, last.g, last.b>>
      ELSE IF brackets = {} THEN <<last.r, last.g, last.b>>
      ELSE LET k == CHOOSE x \in brackets : \A y \in brackets : x <= y
               a == stops[k]
               b == stops[k + 1]
               num == 100 * i - 255 * a.pos
               den == 255 * (b.pos - a.pos)
           IN  <<lerp(a.r, b.r, num, den), lerp(a.g, b.g, num, den),
                 lerp(a.b, b.b, num, den)>>

\* (t * opacity).toFixed(3) at t = i / 255, in thousandths.
LutAlpha(i, opacity) == RoundDiv(i * opacity, 255)

\* One entry of the table the loop of buildColorLUT writes.

\* Variant: red, green and blue premultiplied by the opacity.
LutEntryPremultiplied(scaleId, opacity, i) ==
  LET rgb == sampleGradient(SCALE_STOPS[scaleId], i)
  IN  <<RoundDiv(rgb[1] * opacity, 1000), RoundDiv(rgb[2] * opacity, 1000),
        RoundDiv(rgb[3] * opacity, 1000), LutAlpha(i, opacity)>>

LutEntry(scaleId, opacity, i) ==
  LET rgb == sampleGradient(SCALE_STOPS[scaleId], i)
  IN  <<rgb[1], rgb[2], rgb[3], LutAlpha(i, opacity)>>

\* The cache key `${scaleId}-${opacity.toFixed(2)}`.
LutKey(scaleId, opacity) == <<scaleId, RoundDiv(opacity, 10)>>

\* buildColorLUT(scaleId, opacity) against the cache `cache`.  A table is
\* determined by the scale and the opacity it was built at, so the cache
\* maps a key to that opacity and a table is the pair [scale, opacity].
\* Result: [lut |-> the table returned, cache |-> the cache afterwards,
\* computed |-> whether the 256-entry loop ran].

\* Variant: the table built is not stored.
buildColorLUTForgetting(cache, scaleId, opacity) ==
  LET key == LutKey(scaleId, opacity)
  IN  IF key \in DOMAIN cache
        THEN [lut |-> [scale |-> scaleId, opacity |-> cache[key]], cache |-> cache,
              computed |-> FALSE]
        ELSE [lut |-> [scale |-> scaleId, opacity |-> opacity], cache |-> cache,
              computed |-> TRUE]

buildColorLUT(cache, scaleId, opacity) ==
  LET key == LutKey(scaleId, opacity)
  IN  IF key \in DOMAIN cache
        THEN [lut |-> [scale |-> scaleId, opacity |-> cache[key]], cache |-> cache,
              computed |-> FALSE]
        ELSE [lut |-> [scale |-> scaleId, opacity |-> opacity],
              cache |-> (key :> opacity) @@ cache, computed |-> TRUE]

\* lut[i] of a table returned by buildColorLUT.
LutAt(lut, i) == LutEntry(lut.scale, lut.opacity, i)

(***************************************************************************)
(* KDE engine (engine.ts)                                                  *)
(***************************************************************************)
\* Math.floor(Math.sqrt(n)) for 0 <= n < (bound + 1)^2.
ISqrt(n, bound) == CHOOSE k \in 0..bound : k * k <= n /\ n < (k + 1) * (k + 1)

\* What one point's radial gradient adds to the pixel (px, py): alpha
\* min(1, intensity) at the centre, falling linearly to 0 at blurRadius.
\* The canvas is the browser's; this is its createRadialGradient/arc/fill.
PaintAt(p, px, py, canvasSize, blurRadius, bounds) ==
  LET latRange == bounds.north - bounds.south
      lngRange == bounds.east - bounds.west
      x == ((p.lng - bounds.west) * canvasSize) \div lngRange
      y == ((bounds.north - p.lat) * canvasSize) \div latRange
      d2 == (px - x) * (px - x) + (py - y) * (py - y)
      alpha == Min(100, p.intensity)
  IN  IF d2 >= blurRadius * blurRadius THEN 0
      ELSE (255 * alpha * (blurRadius - ISqrt(d2, blurRadius))) \div (100 * blurRadius)

\* Variant: "copy" compositing, a fill replaces what it covers.
RECURSIVE CompositeCopy(_, _, _, _, _, _, _)
CompositeCopy(points, n, px, py, canvasSize, blurRadius, bounds) ==
  IF n = 0 THEN 0
  ELSE LET paint == PaintAt(points[n], px, py, canvasSize, blurRadius, bounds)
       IN  IF paint > 0 THEN paint
           ELSE CompositeCopy(points, n - 1, px, py, canvasSize, blurRadius, bounds)

\* "lighter" compositing of the points painted so far, one channel: each
\* fill adds to the pixel and the channel saturates at 255.
RECURSIVE Composite(_, _, _, _, _, _, _)
Composite(points, n, px, py, canvasSize, blurRadius, bounds) ==
  IF n = 0 THEN 0
  ELSE Min(255, Composite(points, n - 1, px, py, canvasSize, blurRadius, bounds)
                  + PaintAt(points[n], px, py, canvasSize, blurRadius, bounds))

\* renderKDE: the ImageData read back, as the red channel of each pixel.
renderKDE(points, canvasSize, blurRadius, bounds) ==
  [width  |-> canvasSize,
   height |-> canvasSize,
   data   |-> [px \in 0..(canvasSize - 1), py \in 0..(canvasSize - 1) |->
                 Composite(points, Len(points), px, py, canvasSize, blurRadius, bounds)]]

\* A skipped (below-threshold) cell: the code's null.
NullCell == <<>>

\* sampleGrid: rows * cols entries, row-major, 1-based here.
sampleGrid(imageData, rows, cols, scaleId, opacity, threshold, cache) ==
  LET built == buildColorLUT(cache, scaleId, opacity)
      cellAt(row, col) ==
        LET px == ((2 * col + 1) * imageData.width) \div (2 * cols)
            py == ((2 * row + 1) * imageData.height) \div (2 * rows)
            intensity == Min(255, imageData.data[px, py])
        IN  IF intensity < threshold THEN NullCell ELSE LutAt(built.lut, intensity)
  IN  [cells |-> [k \in 1..(rows * cols) |-> cellAt((k - 1) \div cols, (k - 1) % cols)],
       cache |-> built.cache]

\* computeHeatmapGrid(points, config); result.cache is the LUT cache after.
computeHeatmapGrid(points, config, cache) ==
  LET imageData == renderKDE(points, KDE_CANVAS_SIZE, config.blurRadius, config.bounds)
      sampled == sampleGrid(imageData, config.gridResolution, config.gridResolution,
                            config.colorScale, config.opacity,
                            config.minIntensityThreshold, cache)
  IN  [grid |-> [layerId |-> config.id, bounds |-> config.bounds,
                 cols |-> config.gridResolution, rows |-> config.gridResolution,
                 cells |-> sampled.cells],
       cache |-> sampled.cache]

(***************************************************************************)
(* Layer registry (registry.ts): the static catalogue                      *)
(***************************************************************************)
LayerConfig(id, colorScale, renderMode) ==
  [id |-> id, colorScale |-> colorScale, renderMode |-> renderMode,
   blurRadius |-> DEFAULT_BLUR_RADIUS, gridResolution |-> DEFAULT_GRID_RESOLUTION,
   bounds |-> SfBounds, minIntensityThreshold |-> DEFAULT_INTENSITY_THRESHOLD,
   opacity |-> DEFAULT_LAYER_OPACITY]

LAYER_REGISTRY ==
  << [config |-> LayerConfig("walkability", "thermal", "grid"),
      source |-> [type |-> "inline"]],
     [config |-> LayerConfig("crime", "inferno", "intersections"),
      source |-> [type |-> "intersections"]],
     [config |-> LayerConfig("traffic", "thermal", "streets"),
      source |-> [type |-> "streets"]] >>

RegisteredIds == { LAYER_REGISTRY[k].config.id : k \in 1..Len(LAYER_REGISTRY) }

\* LAYER_REGISTRY.find(e => e.config.id === layerId), for a registered id.
RegistryEntry(layerId) ==
  LAYER_REGISTRY[CHOOSE k \in 1..Len(LAYER_REGISTRY) : LAYER_REGISTRY[k].config.id = layerId]

getLayerConfig(layerId) == RegistryEntry(layerId).config

(***************************************************************************)
(* Data the model feeds the pipeline                                       *)
(***************************************************************************)
\* The centre of grid cell (row, col) of SfBounds, as a point.
CellCentre(row, col, n, intensity) ==
  [lat |-> SfBounds.north - ((2 * row + 1) * (SfBounds.north - SfBounds.south)) \div (2 * n),
   lng |-> SfBounds.west + ((2 * col + 1) * (SfBounds.east - SfBounds.west)) \div (2 * n),
   intensity |-> intensity]

\* Point intensities, by cell: below the threshold (3 -> raster 7), just
\* above it (4 -> 10), middling and saturated.
CellIntensity(k) == <<4, 100, 3, 40, 60, 4, 100, 20>>[((k - 1) % 8) + 1]

\* generateWalkabilityData() returns a fixed list (a seeded generator around
\* fixed clusters).  The model's list is smaller: one point at the centre
\* of each grid cell, with the intensities above.
generateWalkabilityData ==
  LET n == DEFAULT_GRID_RESOLUTION
  IN  [k \in 1..(n * n) |-> CellCentre((k - 1) \div n, (k - 1) % n, n, CellIntensity(k))]

\* Point lists handed to the engine: none, one hot cell, one per cell.
PointSets ==
  { <<>>,
    << CellCentre(0, 0, DEFAULT_GRID_RESOLUTION, 100) >>,
    generateWalkabilityData }

\* A street segment / an intersection of a payload, by position.
SegmentAt(k) ==
  [coordinates |-> << [lat |-> 37750000 + 1000 * k, lng |-> -122450000],
                      [lat |-> 37750000 + 1000 * k, lng |-> -122440000] >>,
   score |-> (37 * k) % 101]

IntersectionAt(k) ==
  [lat |-> 37760000 + 1000 * k, lng |-> -122430000, score |-> (100 - 29 * k) % 101]

\* A value the registry caches (what a generator built or res.json()
\* parsed), as far as its readers read it: an array has a length and
\* elements; an object such as { "error": ... } has neither.
JsonArray(items) == [type |-> "array", items |-> items]

JsonObject == [type |-> "object", items |-> <<>>]

\* Payload lengths: empty, within one batch, three batches.
PayloadLengths == {0, 1, 2 * POLYGON_BATCH_SIZE + 1}

StreetPayloads == { JsonArray([k \in 1..n |-> SegmentAt(k)]) : n \in PayloadLengths }

IntersectionPayloads ==
  { JsonArray([k \in 1..n |-> IntersectionAt(k)]) : n \in PayloadLengths }

\* Opacity values the slider is moved to (thousandths).
OpacityValues == {DEFAULT_LAYER_OPACITY, 200}

\* The same with 0.204, which toFixed(2) prints as 0.200 is printed.
GridOpacityValues == OpacityValues \cup {204}

\* Opacities a renderer's setOpacity is called with directly: fully
\* transparent too.
RendererOpacityValues == OpacityValues \cup {0}

(***************************************************************************)
(* Renderers (renderer.ts, street-renderer.ts, intersection-renderer.ts)   *)
(*                                                                         *)
(* The three classes share one body and differ in the descriptors they     *)
(* build.  The renderer objects, their render runs, the children of the    *)
(* map element and the module-level LUT cache are handled together as a    *)
(* record  w = [rend, runs, scene, lut]:                                   *)
(*   rend[r]   [kind, colorScale, opacity, pool, renderAbort, made]        *)
(*             pool is this.polygons / this.polylines, renderAbort the run *)
(*             whose AbortController the object holds (0: null), made the  *)
(*             number of primitives constructed so far.                    *)
(*   runs[k]   one call of render(): [rid, cells, pc, aborted, idx,        *)
(*             poolSize, act, n, over, recolored]; cells are the           *)
(*             descriptors, pc the await it is suspended at ("import",     *)
(*             "frame") or how it ended ("done", "cancelled", "failed"),   *)
(*             aborted its signal, act the activation awaiting it (0:      *)
(*             none).  Once a run has ended its locals (cells, idx,        *)
(*             poolSize) are gone.  n, over and recolored are history for  *)
(*             the properties: n the number of descriptors, over how far   *)
(*             the run it superseded had got ("none", "import", "frame"),  *)
(*             recolored whether setOpacity was called while it ran.       *)
(*   scene     the primitives attached to the map element, by identity     *)
(*             <<r, n>>: the n-th primitive renderer r constructed.        *)
(***************************************************************************)
\* HeatmapRenderer.buildCellData: one descriptor per non-null cell.
\* Variant: rows counted from the southern edge.
CellRingFromSouth(bounds, rows, cols, row, col) ==
  LET latRange == bounds.north - bounds.south
      lngRange == bounds.east - bounds.west
      south == bounds.south + (row * latRange) \div rows
      north == bounds.south + ((row + 1) * latRange) \div rows
      west == bounds.west + (col * lngRange) \div cols
      east == bounds.west + ((col + 1) * lngRange) \div cols
  IN  << [lat |-> south, lng |-> west, altitude |-> HEATMAP_ALTITUDE],
         [lat |-> south, lng |-> east, altitude |-> HEATMAP_ALTITUDE],
         [lat |-> north, lng |-> east, altitude |-> HEATMAP_ALTITUDE],
         [lat |-> north, lng |-> west, altitude |-> HEATMAP_ALTITUDE],
         [lat |-> south, lng |-> west, altitude |-> HEATMAP_ALTITUDE] >>

CellRing(bounds, rows, cols, row, col) ==
  LET latRange == bounds.north - bounds.south
      lngRange == bounds.east - bounds.west
      south == bounds.north - ((row + 1) * latRange) \div rows
      north == bounds.north - (row * latRange) \div rows
      west == bounds.west + (col * lngRange) \div cols
      east == bounds.west + ((col + 1) * lngRange) \div cols
  IN  << [lat |-> south, lng |-> west, altitude |-> HEATMAP_ALTITUDE],
         [lat |-> south, lng |-> east, altitude |-> HEATMAP_ALTITUDE],
         [lat |-> north, lng |-> east, altitude |-> HEATMAP_ALTITUDE],
         [lat |-> north, lng |-> west, altitude |-> HEATMAP_ALTITUDE],
         [lat |-> south, lng |-> west, altitude |-> HEATMAP_ALTITUDE] >>

RECURSIVE BuildCells(_, _)
BuildCells(grid, k) ==
  IF k = 0 THEN <<>>
  ELSE LET rest == BuildCells(grid, k - 1)
           color == grid.cells[k]
       IN  IF color = NullCell THEN rest
           ELSE Append(rest, [coords |-> CellRing(grid.bounds, grid.rows, grid.cols,
                                                  (k - 1) \div grid.cols, (k - 1) % grid.cols),
                              color |-> color])

\* Variant: absent cells get a transparent descriptor instead of none.
buildCellDataKeepingAbsent(grid) ==
  [k \in 1..(grid.rows * grid.cols) |->
     [coords |-> CellRing(grid.bounds, grid.rows, grid.cols,
                          (k - 1) \div grid.cols, (k - 1) % grid.cols),
      color |-> IF grid.cells[k] = NullCell THEN <<0, 0, 0, 0>> ELSE grid.cells[k]]]

buildCellData(grid) == BuildCells(grid, grid.rows * grid.cols)

\* Math.round(score * 255), score in hundredths.
ColorIdx(score) == RoundDiv(score * 255, 100)

\* StreetRenderer.render, per segment: LUT colour, coordinates at altitude 0.
StreetCells(segments, lut) ==
  [k \in 1..Len(segments) |->
     [coords |-> [j \in 1..Len(segments[k].coordinates) |->
                    [lat |-> segments[k].coordinates[j].lat,
                     lng |-> segments[k].coordinates[j].lng,
                     altitude |-> 0]],
      color |-> LutAt(lut, ColorIdx(segments[k].score))]]

\* sin and cos of 2 * pi * i / 12, in thousandths.
Sin12(i) == <<0, 500, 866, 1000, 866, 500, 0, -500, -866, -1000, -866, -500>>[(i % 12) + 1]
Cos12(i) == Sin12(i + 3)

\* circleCoords(lat, lng, radiusM, numVertices): numVertices + 1 points, the
\* last closing the ring.  cos(lat) is 0.791 over SfBounds.
circleCoords(lat, lng, radiusM, numVertices) ==
  LET latDeg == (radiusM * 1000000) \div 111320
      lngDeg == (radiusM * 1000000) \div ((111320 * 791) \div 1000)
  IN  [i \in 1..(numVertices + 1) |->
         [lat |-> lat + (latDeg * Sin12(i - 1)) \div 1000,
          lng |-> lng + (lngDeg * Cos12(i - 1)) \div 1000,
          altitude |-> HEATMAP_ALTITUDE]]

\* IntersectionRenderer.render, per point.
IntersectionCells(intersections, lut) ==
  [k \in 1..Len(intersections) |->
     [coords |-> circleCoords(intersections[k].lat, intersections[k].lng,
                              DOT_RADIUS_METERS, CIRCLE_VERTICES),
      color |-> LutAt(lut, ColorIdx(intersections[k].score))]]

\* new HeatmapRenderer(mapElement) / new StreetRenderer(mapElement, scale,
\* opacity) / new IntersectionRenderer(...).  The grid renderer keeps no
\* scale or opacity; the fields are then unused.
NewRenderer(kind, colorScale, opacity) ==
  [kind |-> kind, colorScale |-> colorScale, opacity |-> opacity,
   pool |-> <<>>, renderAbort |-> 0, made |-> 0]

PoolIds(pool) == { pool[i].id : i \in 1..Len(pool) }

\* this.renderAbort?.abort()
AbortCurrent(w, r) ==
  LET k == w.rend[r].renderAbort
  IN  IF k = 0 THEN w ELSE [w EXCEPT !.runs[k].aborted = TRUE]

\* render(data), up to its first await (importLibrary): cancel the run in
\* flight, take a fresh signal, build the descriptors.  Data that is no
\* array has an undefined length: the loop makes no pass over it, and the
\* only renderers handed such data are new ones, with nothing to trim.
RenderStart(w, r, data, act) ==
  LET w1 == AbortCurrent(w, r)
      k == Len(w1.runs) + 1
      me == w1.rend[r]
      built == IF me.kind = "grid" THEN [lut |-> <<>>, cache |-> w1.lut]
               ELSE buildColorLUT(w1.lut, me.colorScale, me.opacity)
      cells == CASE me.kind = "grid" -> buildCellData(data)
                 [] me.kind = "streets" -> StreetCells(data.items, built.lut)
                 [] me.kind = "intersections" -> IntersectionCells(data.items, built.lut)
      prev == me.renderAbort
      run == [rid |-> r, cells |-> cells, pc |-> "import", aborted |-> FALSE,
              idx |-> 0, poolSize |-> 0, act |-> act, n |-> Len(cells),
              over |-> IF prev # 0 /\ w.runs[prev].pc \in {"import", "frame"}
                         THEN w.runs[prev].pc ELSE "none",
              recolored |-> FALSE]
  IN  [w1 EXCEPT !.rend[r].renderAbort = k,
                 !.runs = Append(w1.runs, run),
                 !.lut = built.cache]

\* Variant: a pooled primitive is removed and a new one put in its place
\* instead of being recycled.
ApplyBatchRecreating(w, k) ==
  LET run == w.runs[k]
      r == run.rid
      me == w.rend[r]
      batchEnd == Min(run.idx + POLYGON_BATCH_SIZE, Len(run.cells))
      batch == (run.idx + 1)..batchEnd
      fresh == { i \in batch : i > run.poolSize }
      replaced == { i \in batch : i <= run.poolSize }
      replacing == [i \in 1..Len(me.pool) |->
                      IF i \in replaced
                        THEN [id |-> <<r, me.made + (i - run.idx)>>,
                              coords |-> run.cells[i].coords, color |-> run.cells[i].color]
                        ELSE me.pool[i]]
      pushed == [n \in 1..Cardinality(fresh) |->
                   LET i == run.idx + Cardinality(replaced) + n
                   IN  [id |-> <<r, me.made + (i - run.idx)>>, coords |-> run.cells[i].coords,
                        color |-> run.cells[i].color]]
  IN  [w EXCEPT !.rend[r].pool = replacing \o pushed,
                !.rend[r].made = me.made + Cardinality(batch),
                !.scene = (w.scene \ { me.pool[i].id : i \in replaced })
                            \cup { <<r, me.made + n>> : n \in 1..Cardinality(batch) },
                !.runs[k].idx = batchEnd]

\* The for loop of one batch: recycle the pooled primitive at an index
\* below poolSize, otherwise construct one, append it to the map element
\* and push it onto the pool.
ApplyBatch(w, k) ==
  LET run == w.runs[k]
      r == run.rid
      me == w.rend[r]
      batchEnd == Min(run.idx + POLYGON_BATCH_SIZE, Len(run.cells))
      batch == (run.idx + 1)..batchEnd
      fresh == { i \in batch : i > run.poolSize }
      nth(i) == Cardinality({ j \in fresh : j <= i })
      recycled == [i \in 1..Len(me.pool) |->
                     IF i \in batch /\ i <= run.poolSize
                       THEN [me.pool[i] EXCEPT !.coords = run.cells[i].coords,
                                               !.color = run.cells[i].color]
                       ELSE me.pool[i]]
      pushed == [n \in 1..Cardinality(fresh) |->
                   LET i == CHOOSE j \in fresh : nth(j) = n
                   IN  [id |-> <<r, me.made + n>>, coords |-> run.cells[i].coords,
                        color |-> run.cells[i].color]]
  IN  [w EXCEPT !.rend[r].pool = recycled \o pushed,
                !.rend[r].made = me.made + Cardinality(fresh),
                !.scene = w.scene \cup { <<r, me.made + n>> : n \in 1..Cardinality(fresh) },
                !.runs[k].idx = batchEnd]

\* Variant: the excess primitives are left in place.
TrimExcessSkipped(w, k) == w

\* After the loop: remove the pooled primitives past the new length.
TrimExcess(w, k) ==
  LET run == w.runs[k]
      r == run.rid
      pool == w.rend[r].pool
      n == Len(run.cells)
  IN  IF n < run.poolSize
        THEN [w EXCEPT !.scene = w.scene \ { pool[i].id : i \in (n + 1)..Min(run.poolSize, Len(pool)) },
                       !.rend[r].pool = SubSeq(pool, 1, Min(n, Len(pool)))]
        ELSE w

\* render() returned or threw: its locals are gone.
EndRun(w, k, how) ==
  [w EXCEPT !.runs[k].pc = how, !.runs[k].cells = <<>>, !.runs[k].idx = 0,
            !.runs[k].poolSize = 0, !.runs[k].recolored = FALSE]

\* Variant: the loop without its signal.aborted check.
RenderLoopUnchecked(w, k) ==
  LET run == w.runs[k]
  IN  IF run.idx < Len(run.cells)
        THEN LET w1 == ApplyBatch(w, k)
             IN  IF w1.runs[k].idx < Len(run.cells)
                   THEN [w1 EXCEPT !.runs[k].pc = "frame"]
                   ELSE EndRun(TrimExcess(w1, k), k, "done")
        ELSE EndRun(TrimExcess(w, k), k, "done")

\* Variant: the loop yields after every batch, the last one too.
RenderLoopYieldingLast(w, k) ==
  LET run == w.runs[k]
  IN  IF run.idx < Len(run.cells)
        THEN IF run.aborted
               THEN EndRun(w, k, "cancelled")
               ELSE [ApplyBatch(w, k) EXCEPT !.runs[k].pc = "frame"]
        ELSE EndRun(TrimExcess(w, k), k, "done")

\* The while loop from its head to the next await or to the end of render.
RenderLoop(w, k) ==
  LET run == w.runs[k]
  IN  IF run.idx < Len(run.cells)
        THEN IF run.aborted
               THEN EndRun(w, k, "cancelled")
               ELSE LET w1 == ApplyBatch(w, k)
                    IN  IF w1.runs[k].idx < Len(run.cells)
                          THEN [w1 EXCEPT !.runs[k].pc = "frame"]
                          ELSE EndRun(TrimExcess(w1, k), k, "done")
        ELSE EndRun(TrimExcess(w, k), k, "done")

\* Variant: no signal.aborted check after the import.
ResumeImportUnchecked(w, k) ==
  RenderLoop([w EXCEPT !.runs[k].poolSize = Len(w.rend[w.runs[k].rid].pool)], k)

\* importLibrary resolved: the abort check, then poolSize and the loop.
ResumeImport(w, k) ==
  IF w.runs[k].aborted
    THEN EndRun(w, k, "cancelled")
    ELSE RenderLoop([w EXCEPT !.runs[k].poolSize = Len(w.rend[w.runs[k].rid].pool)], k)

\* importLibrary rejected: render throws.
RejectImport(w, k) == EndRun(w, k, "failed")

\* requestAnimationFrame fired: back to the head of the while loop.
ResumeFrame(w, k) == RenderLoop(w, k)

\* Variant: the alpha baked in is capped at the requested opacity.
NewAlphaCapped(opacity, baseA) == Min(opacity, baseA)

\* The new alpha setOpacity writes: Math.min(opacity, baseA > 0 ? opacity : 0).
NewAlpha(opacity, baseA) == Min(opacity, IF baseA > 0 THEN opacity ELSE 0)

\* Variant: the match destructured without skipping the whole match, so
\* every captured group lands one place early.
RecolorShifted(color, opacity) ==
  <<color[2], color[3], color[4], NewAlpha(opacity, color[4])>>

\* One primitive's colour through the regex and back into a string.
Recolor(color, opacity) == <<color[1], color[2], color[3], NewAlpha(opacity, color[4])>>

\* setOpacity(opacity): the street and intersection renderers store it.
RendererSetOpacity(w, r, opacity) ==
  LET me == w.rend[r]
  IN  [w EXCEPT !.rend[r].opacity = IF me.kind = "grid" THEN me.opacity ELSE opacity,
                !.rend[r].pool = [i \in 1..Len(me.pool) |->
                                    [me.pool[i] EXCEPT !.color = Recolor(me.pool[i].color, opacity)]],
                !.runs = [k \in 1..Len(w.runs) |->
                            IF w.runs[k].rid = r /\ w.runs[k].pc \in {"import", "frame"}
                              THEN [w.runs[k] EXCEPT !.recolored = TRUE] ELSE w.runs[k]]]

\* Variant: clear() only aborts.
RendererClearAbortOnly(w, r) == AbortCurrent(w, r)

\* clear(): abort, remove every pooled primitive, empty the pool.
RendererClear(w, r) ==
  LET w1 == AbortCurrent(w, r)
  IN  [w1 EXCEPT !.scene = w1.scene \ PoolIds(w1.rend[r].pool),
                 !.rend[r].pool = <<>>]

(***************************************************************************)
(* State                                                                   *)
(***************************************************************************)
VARIABLES
  rend,           \* the renderer objects constructed so far
  runs,           \* the render() calls made so far
  scene,          \* primitives attached to the map element
  lutCache,       \* colorScales.ts: lutCache
  dataCache,      \* registry.ts: dataCache
  mapElement,     \* the hook's mapElement argument (0: null)
  activeLayerId,  \* options.activeLayerId ("none": null)
  opacity,        \* options.opacity
  isLoading,      \* useState(false)
  rendererRef,    \* rendererRef.current (0: null)
  dataCacheRef,   \* dataCacheRef.current
  restoredRef,    \* restoredRef.current
  acts,           \* the activateLayer calls made so far
  calls,          \* calls made so far on the renderer (SpecR) or hook (Spec)
  loads,          \* the loader calls made on the registry by other callers
  lutCalls,       \* the buildColorLUT / clearColorCache calls made by other callers
  kdeCalls        \* the computeHeatmapGrid calls made by other callers

vars == <<rend, runs, scene, lutCache, dataCache, mapElement, activeLayerId, opacity,
          isLoading, rendererRef, dataCacheRef, restoredRef, acts, calls, loads,
          lutCalls, kdeCalls>>

\* The state as one record; the operators below map a state to a state.
St ==
  [rend |-> rend, runs |-> runs, scene |-> scene, lut |-> lutCache,
   dataCache |-> dataCache, mapElement |-> mapElement,
   activeLayerId |-> activeLayerId, opacity |-> opacity, isLoading |-> isLoading,
   rendererRef |-> rendererRef, dataCacheRef |-> dataCacheRef,
   restoredRef |-> restoredRef, acts |-> acts]

Becomes(s) ==
  /\ rend' = s.rend
  /\ runs' = s.runs
  /\ scene' = s.scene
  /\ lutCache' = s.lut
  /\ dataCache' = s.dataCache
  /\ mapElement' = s.mapElement
  /\ activeLayerId' = s.activeLayerId
  /\ opacity' = s.opacity
  /\ isLoading' = s.isLoading
  /\ rendererRef' = s.rendererRef
  /\ dataCacheRef' = s.dataCacheRef
  /\ restoredRef' = s.restoredRef
  /\ acts' = s.acts
  /\ loads' = loads
  /\ lutCalls' = lutCalls
  /\ kdeCalls' = kdeCalls

EmptyCache == [x \in {} |-> 0]

Without(cache, key) == [x \in (DOMAIN cache) \ {key} |-> cache[x]]

(***************************************************************************)
(* Registry loaders (registry.ts)                                          *)
(*                                                                         *)
(* A loader returns at once when the cache holds the layer or the source   *)
(* is inline, throws when the source is not its own, and otherwise awaits  *)
(* a fetch.  Outcome: [kind |-> "value", value, dataCache] (resolved in    *)
(* the same task), [kind |-> "fetch"] or [kind |-> "throw"].               *)
(***************************************************************************)
INLINE_GENERATORS == [walkability |-> generateWalkabilityData]

loadLayerData(cache, layerId) ==
  IF layerId \in DOMAIN cache
    THEN [kind |-> "value", value |-> cache[layerId], dataCache |-> cache]
  ELSE IF layerId \notin RegisteredIds THEN [kind |-> "throw"]
  ELSE IF RegistryEntry(layerId).source.type = "inline"
    THEN LET points == IF layerId \in DOMAIN INLINE_GENERATORS
                         THEN JsonArray(INLINE_GENERATORS[layerId]) ELSE JsonArray(<<>>)
         IN  [kind |-> "value", value |-> points,
              dataCache |-> (layerId :> points) @@ cache]
  ELSE IF RegistryEntry(layerId).source.type = "url" THEN [kind |-> "fetch"]
  ELSE [kind |-> "throw"]

\* Variant: loadStreetData without the cache lookup.
loadStreetDataUncached(cache, layerId) ==
  IF layerId \notin RegisteredIds \/ RegistryEntry(layerId).source.type # "streets"
    THEN [kind |-> "throw"]
  ELSE [kind |-> "fetch"]

loadStreetData(cache, layerId) ==
  IF layerId \in DOMAIN cache
    THEN [kind |-> "value", value |-> cache[layerId], dataCache |-> cache]
  ELSE IF layerId \notin RegisteredIds \/ RegistryEntry(layerId).source.type # "streets"
    THEN [kind |-> "throw"]
  ELSE [kind |-> "fetch"]

loadIntersectionData(cache, layerId) ==
  IF layerId \in DOMAIN cache
    THEN [kind |-> "value", value |-> cache[layerId], dataCache |-> cache]
  ELSE IF layerId \notin RegisteredIds
          \/ RegistryEntry(layerId).source.type # "intersections"
    THEN [kind |-> "throw"]
  ELSE [kind |-> "fetch"]

\* The loader activateLayer calls for a render mode.
LoaderFor(renderMode, cache, layerId) ==
  CASE renderMode = "grid" -> loadLayerData(cache, layerId)
    [] renderMode = "streets" -> loadStreetData(cache, layerId)
    [] renderMode = "intersections" -> loadIntersectionData(cache, layerId)

\* A loader by its name, for callers outside the hook.
LOADERS == {"loadLayerData", "loadStreetData", "loadIntersectionData"}

CallLoader(fn, cache, layerId) ==
  CASE fn = "loadLayerData" -> loadLayerData(cache, layerId)
    [] fn = "loadStreetData" -> loadStreetData(cache, layerId)
    [] fn = "loadIntersectionData" -> loadIntersectionData(cache, layerId)

\* invalidateCache() called without an argument passes undefined.
Omitted == "<omitted>"

\* invalidateCache(layerId?): `if (layerId)` is false for undefined and
\* for the empty string.
invalidateCache(cache, layerId) ==
  IF layerId \notin {Omitted, ""} THEN Without(cache, layerId) ELSE EmptyCache

\* The bodies a response with res.ok can carry for a layer's URL: the
\* array the route serves at one moment, the array it serves at another,
\* and an object where the array was expected.
AnswersFor(layerId) ==
  CASE getLayerConfig(layerId).renderMode = "streets" ->
         { JsonArray(<< SegmentAt(1) >>), JsonArray(<< SegmentAt(2), SegmentAt(3) >>),
           JsonObject }
    [] getLayerConfig(layerId).renderMode = "intersections" ->
         { JsonArray(<< IntersectionAt(1) >>),
           JsonArray(<< IntersectionAt(2), IntersectionAt(3) >>), JsonObject }
    [] OTHER -> { JsonObject }

\* What a fetch made by an activation can answer with (res.ok): an array
\* longer than a batch, so that its render spans two frames, and an object
\* where the array was expected.
PayloadsFor(layerId) ==
  LET n == POLYGON_BATCH_SIZE + 1
  IN  CASE getLayerConfig(layerId).renderMode = "streets" ->
             { JsonArray([k \in 1..n |-> SegmentAt(k)]), JsonObject }
        [] getLayerConfig(layerId).renderMode = "intersections" ->
             { JsonArray([k \in 1..n |-> IntersectionAt(k)]), JsonObject }
        [] OTHER -> { JsonArray(generateWalkabilityData) }

(***************************************************************************)
(* Controller (useHeatmapLayers.ts)                                        *)
(*                                                                         *)
(* acts[a] is one call of activateLayer: [layer, opacity, rid, pc]; opacity*)
(* is the value its closure captured, rid the renderer it created (its     *)
(* local `renderer`), pc the await it is suspended at ("load", "render")   *)
(* or how it ended ("done", "failed"); an ended call's closure is gone.    *)
(***************************************************************************)
\* rendererRef.current?.clear()
ClearCurrent(s) == IF s.rendererRef = 0 THEN s ELSE RendererClear(s, s.rendererRef)

\* The catch block, then finally.
ActivationCatch(s, a) ==
  [ClearCurrent(s) EXCEPT !.rendererRef = 0, !.activeLayerId = "none",
                          !.isLoading = FALSE, !.acts[a].pc = "failed",
                          !.acts[a].opacity = 0]

\* Variant: no finally block.
ActivationSettleStuck(s, a) == [s EXCEPT !.acts[a].pc = "done", !.acts[a].opacity = 0]

\* The try block ran to its end: finally.
ActivationSettle(s, a) ==
  [s EXCEPT !.isLoading = FALSE, !.acts[a].pc = "done", !.acts[a].opacity = 0]

\* createRenderer(config) and rendererRef.current = renderer.
createRenderer(s, config, a) ==
  LET s1 == ClearCurrent(s)
      r == Len(s1.rend) + 1
  IN  [s1 EXCEPT !.rend = Append(s1.rend,
                                 NewRenderer(config.renderMode, config.colorScale,
                                             s1.acts[a].opacity)),
                 !.rendererRef = r,
                 !.acts[a].rid = r]

\* await renderer.render(data), up to render's first await.
RenderData(s, a, data) ==
  [RenderStart(s, s.acts[a].rid, data, a) EXCEPT !.acts[a].pc = "render"]

\* The loader returned `loaded`: compute the grid (grid mode), store the
\* result in dataCacheRef and render it.
ResolveData(s, a, loaded) ==
  LET layerId == s.acts[a].layer
      config == getLayerConfig(layerId)
  IN  IF config.renderMode = "grid"
        THEN LET g == computeHeatmapGrid(loaded.items,
                                         [config EXCEPT !.opacity = s.acts[a].opacity],
                                         s.lut)
             IN  RenderData([s EXCEPT !.lut = g.cache,
                                      !.dataCacheRef = (layerId :> g.grid) @@ s.dataCacheRef],
                            a, g.grid)
        ELSE RenderData([s EXCEPT !.dataCacheRef = (layerId :> loaded) @@ s.dataCacheRef],
                        a, loaded)

\* activateLayer(layerId), up to its first await that another task can
\* interleave with (a fetch, or render's importLibrary).
activateLayer(s, layerId) ==
  IF s.mapElement = 0 THEN s
  ELSE
    LET a == Len(s.acts) + 1
        s1 == [s EXCEPT !.isLoading = TRUE, !.activeLayerId = layerId,
                        !.acts = Append(s.acts, [layer |-> layerId, opacity |-> s.opacity,
                                                 rid |-> 0, pc |-> "start"])]
    IN  IF layerId \notin RegisteredIds THEN ActivationCatch(s1, a)
        ELSE
          LET config == getLayerConfig(layerId)
              s2 == createRenderer(s1, config, a)
          IN  IF layerId \in DOMAIN s2.dataCacheRef
                THEN RenderData(s2, a, s2.dataCacheRef[layerId])
                ELSE
                  LET out == LoaderFor(config.renderMode, s2.dataCache, layerId)
                  IN  CASE out.kind = "value" ->
                             ResolveData([s2 EXCEPT !.dataCache = out.dataCache], a, out.value)
                        [] out.kind = "fetch" -> [s2 EXCEPT !.acts[a].pc = "load"]
                        [] out.kind = "throw" -> ActivationCatch(s2, a)

\* The fetch of activation a answered with `payload`: the loader caches and
\* returns it, and activateLayer goes on.
FetchResolved(s, a, payload) ==
  ResolveData([s EXCEPT !.dataCache = (s.acts[a].layer :> payload) @@ s.dataCache], a, payload)

\* The fetch answered with a non-ok status: fetchJSON throws.
FetchRejected(s, a) == ActivationCatch(s, a)

\* render() of run k returned or threw: the activation awaiting it goes on.
AfterRun(s, k) ==
  LET run == s.runs[k]
  IN  IF run.act = 0 THEN s
      ELSE IF run.pc \in {"done", "cancelled"} THEN ActivationSettle(s, run.act)
      ELSE IF run.pc = "failed" THEN ActivationCatch(s, run.act)
      ELSE s

\* Variant: toggleLayer without its mapElement guard.
toggleLayerUnguarded(s, layerId) ==
  IF s.activeLayerId = layerId
    THEN [ClearCurrent(s) EXCEPT !.rendererRef = 0, !.activeLayerId = "none"]
  ELSE activateLayer(s, layerId)

\* toggleLayer(layerId)
toggleLayer(s, layerId) ==
  IF s.mapElement = 0 THEN s
  ELSE IF s.activeLayerId = layerId
    THEN [ClearCurrent(s) EXCEPT !.rendererRef = 0, !.activeLayerId = "none"]
  ELSE activateLayer(s, layerId)

\* The restore effect without its restoredRef guard.
RestoreEffectUnguarded(s) ==
  IF s.mapElement = 0 \/ s.activeLayerId = "none" THEN s
  ELSE activateLayer([s EXCEPT !.restoredRef = TRUE], s.activeLayerId)

\* The restore effect (deps: mapElement, activateLayer).
RestoreEffect(s) ==
  IF s.mapElement = 0 \/ s.activeLayerId = "none" \/ s.restoredRef THEN s
  ELSE activateLayer([s EXCEPT !.restoredRef = TRUE], s.activeLayerId)

\* setOpacity(value) dropping every cached entry instead of the active
\* layer's only.
setOpacityClearsAll(s, value) ==
  LET s1 == [s EXCEPT !.opacity = value]
  IN  IF s.rendererRef = 0 \/ s.activeLayerId = "none" THEN s1
      ELSE [RendererSetOpacity(s1, s.rendererRef, value)
              EXCEPT !.dataCacheRef = EmptyCache]

\* setOpacity(value), the handler.
setOpacity(s, value) ==
  LET s1 == [s EXCEPT !.opacity = value]
  IN  IF s.rendererRef = 0 \/ s.activeLayerId = "none" THEN s1
      ELSE [RendererSetOpacity(s1, s.rendererRef, value)
              EXCEPT !.dataCacheRef = Without(s1.dataCacheRef, s.activeLayerId)]

\* setOpacity(value) and the render it causes: a changed opacity gives
\* activateLayer a new identity, which re-runs the restore effect.
OpacityChanged(s, value) ==
  IF value = s.opacity THEN setOpacity(s, value) ELSE RestoreEffect(setOpacity(s, value))

\* The hook re-rendered with another mapElement (null at first): the
\* cleanup of the map-element effect clears and drops the live renderer,
\* its body resets restoredRef, then the restore effect runs.
MapElementSet(s, el) ==
  RestoreEffect([ClearCurrent(s) EXCEPT !.rendererRef = 0, !.mapElement = el,
                                        !.restoredRef = FALSE])

(***************************************************************************)
(* Actions                                                                 *)
(***************************************************************************)
RendererKinds == {"grid", "streets", "intersections"}

\* The data a renderer of a kind is handed.
Grids ==
  { computeHeatmapGrid(points, getLayerConfig("walkability"), EmptyCache).grid :
      points \in PointSets }

DataFor(kind) ==
  CASE kind = "grid" -> Grids
    [] kind = "streets" -> StreetPayloads
    [] kind = "intersections" -> IntersectionPayloads

InFlight(a) == a <= Len(acts) /\ acts[a].pc \in {"load", "render"}

Suspended(k) == k <= Len(runs) /\ runs[k].pc \in {"import", "frame"}

\* --- steps of a render run (both specifications) ---
ImportResolve(k) ==
  /\ runs[k].pc = "import"
  /\ Becomes(AfterRun(ResumeImport(St, k), k))
  /\ UNCHANGED calls

ImportFail(k) ==
  /\ runs[k].pc = "import"
  /\ Becomes(AfterRun(RejectImport(St, k), k))
  /\ UNCHANGED calls

FrameFire(k) ==
  /\ runs[k].pc = "frame"
  /\ Becomes(AfterRun(ResumeFrame(St, k), k))
  /\ UNCHANGED calls

\* --- calls on the one renderer of SpecR ---
Render(data) ==
  /\ calls < MaxCalls
  /\ calls' = calls + 1
  /\ Becomes(RenderStart(St, 1, data, 0))

Clear ==
  /\ calls < MaxCalls
  /\ calls' = calls + 1
  /\ Becomes(RendererClear(St, 1))

SetRendererOpacity(v) ==
  /\ calls < MaxCalls
  /\ calls' = calls + 1
  /\ Becomes(RendererSetOpacity(St, 1, v))

\* --- controller operations (the specifications cap the number of calls) ---
ToggleLayer(layerId) ==
  /\ calls' = calls + 1
  /\ Becomes(toggleLayer(St, layerId))

SetOpacity(v) ==
  /\ calls' = calls + 1
  /\ Becomes(OpacityChanged(St, v))

MapReady ==
  /\ mapElement = 0
  /\ Becomes(MapElementSet(St, 1))
  /\ UNCHANGED calls

\* The hook is handed another map element.
MapChanged ==
  /\ mapElement # 0
  /\ mapElement < MaxMaps
  /\ Becomes(MapElementSet(St, mapElement + 1))
  /\ UNCHANGED calls

\* The hook is handed null again (the map went away); counted with the
\* calls made on the hook.
MapGone ==
  /\ mapElement # 0
  /\ calls' = calls + 1
  /\ Becomes(MapElementSet(St, 0))

LoadResolve(a) ==
  /\ acts[a].pc = "load"
  /\ \E payload \in PayloadsFor(acts[a].layer) :
       Becomes(FetchResolved(St, a, payload))
  /\ UNCHANGED calls

LoadFail(a) ==
  /\ acts[a].pc = "load"
  /\ Becomes(FetchRejected(St, a))
  /\ UNCHANGED calls

\* --- calls on the registry (SpecG) ---
HookVars ==
  <<rend, runs, scene, lutCache, mapElement, activeLayerId, opacity, isLoading,
    rendererRef, dataCacheRef, restoredRef, acts, lutCalls, kdeCalls>>

\* A caller calls a loader: loads[l] is the call, [fn, layer, pc, source,
\* value]; pc is "fetch" while it awaits fetchJSON, then "done" or
\* "failed"; source tells that the call ran the generator or fetched the
\* URL; value is <<the value returned>>.
LoadCall(fn, layerId) ==
  /\ Len(loads) < MaxLoads
  /\ LET out == CallLoader(fn, dataCache, layerId)
     IN  /\ dataCache' = IF out.kind = "value" THEN out.dataCache ELSE dataCache
         /\ loads' = Append(loads,
                [fn |-> fn, layer |-> layerId,
                 pc |-> CASE out.kind = "value" -> "done"
                          [] out.kind = "fetch" -> "fetch"
                          [] out.kind = "throw" -> "failed",
                 source |-> \/ out.kind = "fetch"
                            \/ out.kind = "value" /\ layerId \notin DOMAIN dataCache,
                 value |-> IF out.kind = "value" THEN << out.value >> ELSE <<>>])
  /\ UNCHANGED <<HookVars, calls>>

\* Variant: the body is appended to what the cache holds for the layer.
FetchAnswerMerging(l, body) ==
  /\ loads[l].pc = "fetch"
  /\ dataCache' =
       IF loads[l].layer \in DOMAIN dataCache
         THEN (loads[l].layer :>
                 JsonArray(dataCache[loads[l].layer].items \o body.items)) @@ dataCache
         ELSE (loads[l].layer :> body) @@ dataCache
  /\ loads' = [loads EXCEPT ![l].pc = "done", ![l].value = << body >>]
  /\ UNCHANGED <<HookVars, calls>>

\* fetchJSON of call l returns the parsed body: the loader caches it and
\* returns it.
FetchAnswer(l, body) ==
  /\ loads[l].pc = "fetch"
  /\ dataCache' = (loads[l].layer :> body) @@ dataCache
  /\ loads' = [loads EXCEPT ![l].pc = "done", ![l].value = << body >>]
  /\ UNCHANGED <<HookVars, calls>>

\* Variant: the loader caches the body of the refused response.
FetchNotOkCaching(l) ==
  /\ loads[l].pc = "fetch"
  /\ loads' = [loads EXCEPT ![l].pc = "failed"]
  /\ dataCache' = (loads[l].layer :> JsonObject) @@ dataCache
  /\ UNCHANGED <<HookVars, calls>>

\* The response of call l is not ok: fetchJSON throws, and so the loader.
FetchNotOk(l) ==
  /\ loads[l].pc = "fetch"
  /\ loads' = [loads EXCEPT ![l].pc = "failed"]
  /\ UNCHANGED <<HookVars, calls, dataCache>>

Invalidate(layerId) ==
  /\ calls' = calls + 1
  /\ dataCache' = invalidateCache(dataCache, layerId)
  /\ UNCHANGED <<HookVars, loads>>

(***************************************************************************)
(* Specifications                                                          *)
(***************************************************************************)
\* Ids the URL restores: none, a registered layer, an unknown one.
RestorableIds == {"none", "traffic", "unknown"}

\* Spec: the controller after mount, the map element not yet available.
Init ==
  /\ rend = <<>>
  /\ runs = <<>>
  /\ scene = {}
  /\ lutCache = EmptyCache
  /\ dataCache = EmptyCache
  /\ mapElement = 0
  /\ activeLayerId \in RestorableIds
  /\ opacity = DEFAULT_LAYER_OPACITY
  /\ isLoading = FALSE
  /\ rendererRef = 0
  /\ dataCacheRef = EmptyCache
  /\ restoredRef = FALSE
  /\ acts = <<>>
  /\ calls = 0
  /\ loads = <<>>
  /\ lutCalls = <<>>
  /\ kdeCalls = <<>>

Next ==
  \/ calls < MaxOps /\ \E layerId \in RegisteredIds : ToggleLayer(layerId)
  \/ calls < MaxOps /\ \E v \in OpacityValues : SetOpacity(v)
  \/ MapReady
  \/ calls < MaxOps /\ MapGone
  \/ \E a \in 1..Len(acts) : LoadResolve(a)
  \/ \E a \in 1..Len(acts) : LoadFail(a)
  \/ \E k \in 1..Len(runs) : ImportResolve(k)
  \/ \E k \in 1..Len(runs) : ImportFail(k)
  \/ \E k \in 1..Len(runs) : FrameFire(k)

Spec == Init /\ [][Next]_vars

\* A pending fetch, library import or animation frame is answered.
Answered ==
  \/ \E a \in 1..Len(acts) : LoadResolve(a) \/ LoadFail(a)
  \/ \E k \in 1..Len(runs) : ImportResolve(k) \/ ImportFail(k) \/ FrameFire(k)

\* An answer is pending: exactly when Answered is enabled.
Pending ==
  \/ \E a \in 1..Len(acts) : acts[a].pc = "load"
  \/ \E k \in 1..Len(runs) : Suspended(k)

\* SpecFair: Spec with the event loop delivering pending answers, that is
\* WF_vars(Answered) with ENABLED <<Answered>>_vars written out as Pending.
\* The calls made on the hook are finitely many, so this answers every one.
SpecFair == Spec /\ ([]<>(~Pending) \/ []<><<Answered>>_vars)

\* SpecR: one renderer of any kind, called directly.
InitR ==
  /\ \E kind \in RendererKinds :
       rend = << NewRenderer(kind, IF kind = "intersections" THEN "inferno" ELSE "thermal",
                             DEFAULT_LAYER_OPACITY) >>
  /\ runs = <<>>
  /\ scene = {}
  /\ lutCache = EmptyCache
  /\ dataCache = EmptyCache
  /\ mapElement = 1
  /\ activeLayerId = "none"
  /\ opacity = DEFAULT_LAYER_OPACITY
  /\ isLoading = FALSE
  /\ rendererRef = 0
  /\ dataCacheRef = EmptyCache
  /\ restoredRef = FALSE
  /\ acts = <<>>
  /\ calls = 0
  /\ loads = <<>>
  /\ lutCalls = <<>>
  /\ kdeCalls = <<>>

NextR ==
  \/ \E data \in DataFor(rend[1].kind) : Render(data)
  \/ Clear
  \/ \E v \in RendererOpacityValues : SetRendererOpacity(v)
  \/ \E k \in 1..Len(runs) : ImportResolve(k)
  \/ \E k \in 1..Len(runs) : ImportFail(k)
  \/ \E k \in 1..Len(runs) : FrameFire(k)

SpecR == InitR /\ [][NextR]_vars

\* SpecO: the controller with the grid layer only, opacity and active id
\* as the URL gives them, and opacities that agree to two decimals.
InitO ==
  /\ rend = <<>>
  /\ runs = <<>>
  /\ scene = {}
  /\ lutCache = EmptyCache
  /\ dataCache = EmptyCache
  /\ mapElement = 0
  /\ activeLayerId \in {"none", "walkability"}
  /\ opacity \in OpacityValues
  /\ isLoading = FALSE
  /\ rendererRef = 0
  /\ dataCacheRef = EmptyCache
  /\ restoredRef = FALSE
  /\ acts = <<>>
  /\ calls = 0
  /\ loads = <<>>
  /\ lutCalls = <<>>
  /\ kdeCalls = <<>>

NextO ==
  \/ calls < MaxGridOps /\ ToggleLayer("walkability")
  \/ calls < MaxGridOps /\ \E v \in GridOpacityValues : SetOpacity(v)
  \/ MapReady
  \/ MapChanged
  \/ \E k \in 1..Len(runs) : ImportResolve(k)
  \/ \E k \in 1..Len(runs) : ImportFail(k)
  \/ \E k \in 1..Len(runs) : FrameFire(k)

SpecO == InitO /\ [][NextO]_vars

\* SpecG: the registry called by any callers, the hook not mounted.
LoadIds == {"walkability", "traffic", "unknown"}

InvalidateArgs == LoadIds \cup {"", Omitted}

\* The loader calls awaiting fetchJSON.
Fetching == { l \in 1..Len(loads) : loads[l].pc = "fetch" }

InitG ==
  /\ rend = <<>>
  /\ runs = <<>>
  /\ scene = {}
  /\ lutCache = EmptyCache
  /\ dataCache = EmptyCache
  /\ mapElement = 0
  /\ activeLayerId = "none"
  /\ opacity = DEFAULT_LAYER_OPACITY
  /\ isLoading = FALSE
  /\ rendererRef = 0
  /\ dataCacheRef = EmptyCache
  /\ restoredRef = FALSE
  /\ acts = <<>>
  /\ calls = 0
  /\ loads = <<>>
  /\ lutCalls = <<>>
  /\ kdeCalls = <<>>

NextG ==
  \/ \E fn \in LOADERS, layerId \in LoadIds : LoadCall(fn, layerId)
  \/ \E l \in Fetching : \E body \in AnswersFor(loads[l].layer) : FetchAnswer(l, body)
  \/ \E l \in Fetching : FetchNotOk(l)
  \/ calls < MaxInvalidations /\ \E layerId \in InvalidateArgs : Invalidate(layerId)

SpecG == InitG /\ [][NextG]_vars

\* --- calls on colorScales.ts (SpecL) ---
\* Everything but the LUT cache and the log of the calls made on it.
NonLutVars ==
  <<rend, runs, scene, dataCache, mapElement, activeLayerId, opacity, isLoading,
    rendererRef, dataCacheRef, restoredRef, acts, calls, loads, kdeCalls>>

ColorScaleIds == DOMAIN SCALE_STOPS

\* Opacities callers pass: the ends of [0, 1], the default, and two that
\* agree to two decimals.
LutOpacityValues == {0, 200, 204, DEFAULT_LAYER_OPACITY, 1000}

\* A caller calls buildColorLUT(scaleId, v); lutCalls logs the call
\* with the table it returned and whether the table was computed.
BuildLut(scaleId, v) ==
  /\ Len(lutCalls) < MaxLutCalls
  /\ LET built == buildColorLUT(lutCache, scaleId, v)
     IN  /\ lutCache' = built.cache
         /\ lutCalls' = Append(lutCalls,
                               [op |-> "build", scaleId |-> scaleId, opacity |-> v,
                                lut |-> built.lut, computed |-> built.computed])
  /\ UNCHANGED NonLutVars

\* clearColorCache().
ClearColorCache ==
  /\ Len(lutCalls) < MaxLutCalls
  /\ lutCache' = EmptyCache
  /\ lutCalls' = Append(lutCalls,
                        [op |-> "clear", scaleId |-> "", opacity |-> 0,
                         lut |-> [scale |-> "", opacity |-> 0], computed |-> FALSE])
  /\ UNCHANGED NonLutVars

\* SpecL: colorScales.ts called by any callers, nothing else running.
InitL == InitG

NextL ==
  \/ \E scaleId \in ColorScaleIds, v \in LutOpacityValues : BuildLut(scaleId, v)
  \/ ClearColorCache

SpecL == InitL /\ [][NextL]_vars

\* --- calls on engine.ts (SpecK) ---
\* Everything but the LUT cache and the log of the engine calls.
NonKdeVars ==
  <<rend, runs, scene, dataCache, mapElement, activeLayerId, opacity, isLoading,
    rendererRef, dataCacheRef, restoredRef, acts, calls, loads, lutCalls>>

\* Points callers pass: three whose gradients overlap around the centre of
\* the north-west cell (together they saturate the raster there) and a
\* faint one in the next cell.
KdePoints ==
  LET c == CellCentre(0, 0, DEFAULT_GRID_RESOLUTION, 0)
  IN  { [lat |-> c.lat, lng |-> c.lng, intensity |-> 60],
        [lat |-> c.lat, lng |-> c.lng + 1600, intensity |-> 100],
        [lat |-> c.lat - 1000, lng |-> c.lng, intensity |-> 40],
        CellCentre(0, 1, DEFAULT_GRID_RESOLUTION, 4) }

\* The lists of distinct points of KdePoints, in every order.
KdePointLists ==
  UNION { { l \in [1..n -> KdePoints] : \A i, j \in 1..n : l[i] = l[j] => i = j } :
            n \in 0..MaxKdePoints }

\* A caller calls computeHeatmapGrid(points, config) with the walkability
\* config; kdeCalls logs the points and the grid returned.
ComputeGrid(points) ==
  /\ Len(kdeCalls) < MaxKdeCalls
  /\ LET out == computeHeatmapGrid(points, getLayerConfig("walkability"), lutCache)
     IN  /\ lutCache' = out.cache
         /\ kdeCalls' = Append(kdeCalls, [points |-> points, grid |-> out.grid])
  /\ UNCHANGED NonKdeVars

\* SpecK: the engine called by any callers, nothing else running.
InitK == InitG

NextK == \E points \in KdePointLists : ComputeGrid(points)

SpecK == InitK /\ [][NextK]_vars

(***************************************************************************)
(* Properties of one renderer (SpecR)                                      *)
(***************************************************************************)
\* The colour a primitive carries for a descriptor: the descriptor's own,
\* or, when setOpacity was called while the run was going, the same red,
\* green and blue.
Carries(prim, cell, recolored) ==
  /\ prim.coords = cell.coords
  /\ IF recolored
       THEN <<prim.color[1], prim.color[2], prim.color[3]>> =
            <<cell.color[1], cell.color[2], cell.color[3]>>
       ELSE prim.color = cell.color

\* C1: when render(B) is called while render(A) is in flight on the same
\* renderer, then at the step in which render(B) completes the pool holds
\* exactly len(B) primitives and the i-th carries B's i-th descriptor.
C1_SupersedingRenderWins ==
  [][\A k \in 1..Len(runs) :
       (Suspended(k) /\ runs[k].over # "none" /\ runs'[k].pc = "done") =>
         LET pool == rend'[runs[k].rid].pool
             cells == runs[k].cells
         IN  /\ Len(pool) = Len(cells)
             /\ \A i \in 1..Len(cells) : Carries(pool[i], cells[i], runs[k].recolored)
             /\ PoolIds(pool) \subseteq scene'
             /\ Cardinality(PoolIds(pool)) = Len(pool)]_vars

\* A render that superseded one suspended at a frame, after batches of the
\* superseded run were applied, has completed with its primitives pooled.
C1_Witness ==
  \E k \in 1..Len(runs) :
    /\ runs[k].pc = "done" /\ runs[k].over = "frame" /\ runs[k].n > 0
    /\ rend[runs[k].rid].renderAbort = k /\ ~runs[k].aborted
    /\ Len(rend[runs[k].rid].pool) = runs[k].n

\* C5: whenever the most recent render() call of a renderer has completed
\* (and clear() has not been called since), the pooled primitives are as
\* many as that call's descriptors, all of them attached and no other.
C5_PoolConservation ==
  \A r \in 1..Len(rend) :
    LET k == rend[r].renderAbort
    IN  (k # 0 /\ runs[k].pc = "done" /\ ~runs[k].aborted) =>
          /\ Len(rend[r].pool) = runs[k].n
          /\ Cardinality(PoolIds(rend[r].pool)) = runs[k].n
          /\ { id \in scene : id[1] = r } = PoolIds(rend[r].pool)

\* Two awaited renders, the second shorter than the first: the pool shrank.
C5_Witness ==
  /\ Len(runs) >= 2
  /\ runs[1].pc = "done" /\ runs[2].pc = "done" /\ runs[2].over = "none"
  /\ runs[2].n > 0 /\ runs[2].n < runs[1].n
  /\ rend[1].renderAbort = 2 /\ ~runs[2].aborted
  /\ Len(rend[1].pool) = runs[2].n

\* C6: a run whose signal is aborted (superseded by a newer render() or
\* cancelled by clear()) changes nothing when it resumes, at the library
\* await or at a frame: no renderer's pool, no primitive, nothing attached
\* or detached; and it does not complete.
C6_CancelledRunInert ==
  [][\A k \in 1..Len(runs) :
       (Suspended(k) /\ runs[k].aborted /\ runs'[k].pc # runs[k].pc) =>
         /\ rend' = rend
         /\ scene' = scene
         /\ runs'[k].pc \in {"cancelled", "failed"}]_vars

\* A run superseded at a frame, with batches applied, has resumed and
\* stopped.
C6_Witness ==
  \E k \in 1..Len(runs) :
    /\ runs[k].pc = "cancelled"
    /\ k < Len(runs) /\ runs[k + 1].over = "frame" /\ runs[k + 1].rid = runs[k].rid

\* C7: from a clear() until the next render() on the renderer (the run the
\* renderer holds is aborted, or it never rendered) the pool is empty and
\* the renderer has no primitive attached.
C7_ClearedStaysEmpty ==
  \A r \in 1..Len(rend) :
    LET k == rend[r].renderAbort
    IN  (k = 0 \/ runs[k].aborted) =>
          /\ rend[r].pool = <<>>
          /\ { id \in scene : id[1] = r } = {}

\* clear() was called while a render was in flight with primitives made;
\* the run has since resumed and stopped, and the pool is empty.
C7_Witness ==
  \E r \in 1..Len(rend) :
    LET k == rend[r].renderAbort
    IN  /\ k # 0 /\ runs[k].aborted /\ runs[k].pc = "cancelled"
        /\ rend[r].made > 0
        /\ rend[r].pool = <<>>

\* C9: Renderer.setOpacity(v), on any of the three renderers, leaves the
\* pooled primitives the same in number, identity and coordinates, leaves
\* what is attached to the map unchanged, and leaves the red, green and
\* blue of every primitive unchanged; only alpha may change.
C9_SetOpacityKeepsGeometry ==
  [][\A v \in RendererOpacityValues :
       SetRendererOpacity(v) =>
         /\ Len(rend'[1].pool) = Len(rend[1].pool)
         /\ scene' = scene
         /\ \A i \in 1..Len(rend[1].pool) :
              LET before == rend[1].pool[i]
                  after == rend'[1].pool[i]
              IN  /\ after.id = before.id
                  /\ after.coords = before.coords
                  /\ after.color[1] = before.color[1]
                  /\ after.color[2] = before.color[2]
                  /\ after.color[3] = before.color[3]]_vars

\* setOpacity(0.2) has acted on a pool of several primitives: all carry
\* alpha 0.200 while the renderer's last render has completed.
C9_Witness ==
  /\ Len(rend[1].pool) > 1
  /\ \A i \in 1..Len(rend[1].pool) : rend[1].pool[i].color[4] = 200
  /\ \E i, j \in 1..Len(rend[1].pool) :
       rend[1].pool[i].color[1] # rend[1].pool[j].color[1]
  /\ rend[1].renderAbort # 0 /\ runs[rend[1].renderAbort].pc = "done"

\* C10: for a grid rendered at opacity 0.55, setOpacity(0.2) raises the
\* alpha of no primitive: each alpha after the call is at most the alpha
\* before it.
C10_AlphaNeverRises ==
  [][(rend[1].kind = "grid" /\ SetRendererOpacity(200)) =>
       \A i \in 1..Len(rend[1].pool) :
         rend'[1].pool[i].color[4] <= rend[1].pool[i].color[4]]_vars

(***************************************************************************)
(* Properties of the controller (Spec, SpecFair)                           *)
(***************************************************************************)
NoneInFlight == \A a \in 1..Len(acts) : ~InFlight(a)

\* Two toggles, each starting an activation, of different layers, both
\* activations over and the second one not failed.
BothSettled ==
  /\ Len(acts) = 2 /\ calls = 2 /\ ~restoredRef
  /\ acts[1].layer # acts[2].layer
  /\ NoneInFlight
  /\ acts[2].pc = "done"

\* C2: after toggle(A) and toggle(B), B a different layer, once both
\* activations have settled the active id is B and every primitive attached
\* to the map belongs to B's renderer, the live one; and no activation but
\* the latest ever attaches a primitive.
C2_LatestToggleWins ==
  [][/\ \A id \in scene' \ scene :
          Len(acts) > 0 /\ id[1] = acts[Len(acts)].rid
     /\ BothSettled' =>
          /\ activeLayerId' = acts'[2].layer
          /\ rendererRef' = acts'[2].rid
          /\ \A id \in scene' : id[1] = acts'[2].rid]_vars

\* C3: the step in which an activation fails (unknown layer, rejected
\* fetch, render throwing) leaves the active id none, the live renderer
\* cleared and dropped, and nothing attached to the map.
C3_FailureLeavesNothing ==
  [][\A a \in 1..Len(acts') :
       (acts'[a].pc = "failed" /\ (a > Len(acts) \/ acts[a].pc # "failed")) =>
         /\ activeLayerId' = "none"
         /\ rendererRef' = 0
         /\ rendererRef # 0 => rend'[rendererRef].pool = <<>>
         /\ scene' = {}]_vars

\* C4: toggle(id) on the active layer id, its activation completed and its
\* renderer live, detaches every primitive from the map, drops the live
\* renderer and leaves the active id none.
C4_ToggleOffDetachesAll ==
  [][\A id \in RegisteredIds :
       ( /\ ToggleLayer(id)
         /\ mapElement # 0 /\ activeLayerId = id
         /\ Len(acts) > 0
         /\ acts[Len(acts)].layer = id /\ acts[Len(acts)].pc = "done"
         /\ rendererRef = acts[Len(acts)].rid ) =>
         /\ scene' = {}
         /\ rendererRef' = 0
         /\ activeLayerId' = "none"]_vars

\* C8: given that fetches, imports and frames are answered, whenever
\* activations are in flight they all eventually settle; the step in which
\* an activation settles, completed or failed, clears the loading flag; and
\* whenever no activation is in flight the flag is false.
C8_LoadingFlagClears ==
  /\ [](NoneInFlight => ~isLoading)
  /\ [][\A a \in 1..Len(acts) : (InFlight(a) /\ ~InFlight(a)') => ~isLoading']_vars
  /\ (~NoneInFlight) ~> (NoneInFlight /\ ~isLoading)

\* Two activations have settled, one completed and one failed, and the
\* flag is false.
C8_Witness ==
  /\ Len(acts) >= 2 /\ NoneInFlight /\ ~isLoading
  /\ \E a, b \in 1..Len(acts) : acts[a].pc = "done" /\ acts[b].pc = "failed"
  /\ \E k \in 1..Len(runs) : runs[k].pc = "cancelled"

\* C11: setOpacity(v), called in any state with an active layer L and a
\* live renderer, stores v, calls the live renderer's setOpacity(v) (and
\* touches no other renderer) and removes L's
\* entry from dataCacheRef, every other layer's entry staying as it was;
\* with no active layer or no live renderer it stores v and changes no
\* renderer and no cache entry.
C11_SetOpacityInvalidatesActiveOnly ==
  \A v \in OpacityValues :
    LET t == setOpacity(St, v)
    IN  /\ t.opacity = v
        /\ t.dataCache = dataCache
        /\ IF rendererRef # 0 /\ activeLayerId # "none"
             THEN /\ t.rend = RendererSetOpacity(St, rendererRef, v).rend
                  /\ t.runs = RendererSetOpacity(St, rendererRef, v).runs
                  /\ DOMAIN t.dataCacheRef = DOMAIN dataCacheRef \ {activeLayerId}
                  /\ \A id \in DOMAIN t.dataCacheRef :
                       t.dataCacheRef[id] = dataCacheRef[id]
             ELSE /\ t.rend = rend
                  /\ t.dataCacheRef = dataCacheRef

\* setOpacity(0.2) has acted while crime was active and rendered, with
\* traffic's data cached from an earlier activation: crime's entry is gone,
\* traffic's is kept, the live renderer holds 0.2.
C11_Witness ==
  /\ activeLayerId = "crime" /\ rendererRef # 0 /\ opacity = 200
  /\ rend[rendererRef].opacity = 200 /\ rend[rendererRef].pool # <<>>
  /\ "crime" \notin DOMAIN dataCacheRef
  /\ "traffic" \in DOMAIN dataCacheRef

\* C12: a setOpacity(v) call made with an active layer and a live renderer
\* starts no activation pass, constructs no renderer, starts no render run
\* and writes no entry of the registry cache or of dataCacheRef (no loader
\* call, no computeHeatmapGrid).
C12_OpacityChangeStartsNothing ==
  [][\A v \in OpacityValues :
       (SetOpacity(v) /\ activeLayerId # "none" /\ rendererRef # 0) =>
         /\ Len(acts') = Len(acts)
         /\ Len(rend') = Len(rend)
         /\ Len(runs') = Len(runs)
         /\ dataCache' = dataCache
         /\ DOMAIN dataCacheRef' \subseteq DOMAIN dataCacheRef]_vars

(***************************************************************************)
(* Properties of the controller with the grid layer (SpecO)                *)
(***************************************************************************)
\* The walkability grid computed with opacity o from a LUT built at o.
GridTable ==
  [o \in GridOpacityValues |->
     computeHeatmapGrid(generateWalkabilityData,
                        [getLayerConfig("walkability") EXCEPT !.opacity = o], EmptyCache).grid]

GridAt(o) == GridTable[o]

\* dataCacheRef holds no walkability grid baked at another opacity than the
\* current one.
NoStaleGrid ==
  "walkability" \in DOMAIN dataCacheRef => dataCacheRef["walkability"] = GridAt(opacity)

\* The same of the state a step leads to.
NoStaleGridAfter ==
  "walkability" \in DOMAIN dataCacheRef' =>
    dataCacheRef'["walkability"] = GridAt(opacity')

\* C13: setOpacity(v) with the grid layer active and its renderer live
\* leaves no grid baked at another opacity than v in dataCacheRef, toggling
\* the layer off keeps it so, and the next toggle on then stores the grid
\* computed with opacity v from the LUT built at v and starts rendering the
\* descriptors of that grid.
C13_NextActivationRecomputes ==
  [][/\ \A v \in GridOpacityValues :
          (SetOpacity(v) /\ activeLayerId = "walkability" /\ rendererRef # 0) =>
            NoStaleGridAfter
     /\ (ToggleLayer("walkability") /\ mapElement # 0 /\ NoStaleGrid) =>
          /\ NoStaleGridAfter
          /\ activeLayerId = "none" =>
               /\ "walkability" \in DOMAIN dataCacheRef'
               /\ Len(runs') = Len(runs) + 1
               /\ runs'[Len(runs')].cells = buildCellData(GridAt(opacity))]_vars

\* A step of the hook that is no toggleLayer call started an activation:
\* the restore effect did.
RestoreActivated ==
  /\ Len(acts') = Len(acts) + 1
  /\ calls' = calls \/ \E v \in GridOpacityValues : SetOpacity(v)

\* C14 as stated: the restore effect activates when the map element first
\* becomes available with a layer active, and no later change of the map
\* element starts an activation.
C14_NoRestoreOnSurfaceChange ==
  [][/\ (MapReady /\ activeLayerId # "none") => RestoreActivated
     /\ (mapElement # 0 /\ mapElement' # mapElement) => ~RestoreActivated]_vars

\* C14, amended: the restore effect starts exactly one activation, of the
\* active layer, in the step in which the map element becomes available or
\* is replaced while a layer is active; and it starts at most one
\* activation per map element: it activates only with restoredRef unset,
\* sets it, and restoredRef stays set until the map element changes.
C14_OneRestorePerSurface ==
  [][/\ (mapElement' # mapElement /\ activeLayerId # "none") =>
          /\ RestoreActivated
          /\ acts'[Len(acts')].layer = activeLayerId
          /\ restoredRef'
     /\ RestoreActivated => (~restoredRef \/ mapElement' # mapElement) /\ restoredRef'
     /\ (restoredRef /\ mapElement' = mapElement) => restoredRef']_vars

\* No call was made on the hook: the layer restored from the URL was
\* activated when the first map element arrived and once more when the
\* second replaced it.
C14_Witness ==
  /\ calls = 0 /\ mapElement = 2 /\ restoredRef
  /\ Len(acts) = 2 /\ acts[1].layer = "walkability" /\ acts[2].layer = "walkability"
  /\ acts[1].rid # acts[2].rid

(***************************************************************************)
(* Properties of the registry (SpecG)                                      *)
(***************************************************************************)
\* The loader calls of a layer that resolved its source (ran the generator,
\* or fetched the URL and were not refused).
Resolving(layerId) ==
  { l \in 1..Len(loads) :
      loads[l].layer = layerId /\ loads[l].source /\ loads[l].pc # "failed" }

\* C15 as stated: while invalidateCache has not been called, no layer has
\* its source resolved by more than one loader call, concurrent calls
\* included.
C15_SourceResolvedOnce ==
  calls = 0 => \A layerId \in LoadIds : Cardinality(Resolving(layerId)) <= 1

\* C15, amended: a loader call that starts when the cache holds the layer
\* returns the cached value at once, without resolving the source and
\* without writing the cache; a call that starts when the cache does not
\* hold the layer, and does not throw, resolves the source (also while an
\* earlier fetch of the layer is in flight); and an inline generator runs
\* once while invalidateCache is not called.
C15_CachedLoadDoesNotResolve ==
  [][\A fn \in LOADERS, layerId \in LoadIds :
       LoadCall(fn, layerId) =>
         LET call == loads'[Len(loads')]
         IN  /\ layerId \in DOMAIN dataCache =>
                  /\ call.pc = "done" /\ ~call.source
                  /\ call.value = << dataCache[layerId] >>
                  /\ dataCache' = dataCache
             /\ (layerId \notin DOMAIN dataCache /\ call.pc # "failed") => call.source
             /\ (calls = 0 /\ layerId = "walkability") =>
                  Cardinality({ l \in 1..Len(loads') :
                                  loads'[l].layer = layerId /\ loads'[l].source }) <= 1]_vars

\* Three calls for traffic, none invalidated: the first fetched, the two
\* that started after its answer got the cached array and fetched nothing.
C15_Witness ==
  /\ calls = 0 /\ Len(loads) = 3
  /\ \A l \in 1..3 : loads[l].layer = "traffic" /\ loads[l].pc = "done"
  /\ loads[1].source /\ ~loads[2].source /\ ~loads[3].source
  /\ loads[2].value = loads[1].value /\ loads[3].value = loads[1].value
  /\ dataCache["traffic"] = JsonArray(<< SegmentAt(2), SegmentAt(3) >>)

\* C16: while invalidateCache has not been called, the loader calls that
\* returned for one layer, concurrent ones included, all returned the same
\* value, and it is the value the cache holds for the layer.
C16_CallersSeeOneValue ==
  calls = 0 =>
    \A l \in 1..Len(loads) :
      loads[l].pc = "done" =>
        /\ loads[l].layer \in DOMAIN dataCache
        /\ loads[l].value = << dataCache[loads[l].layer] >>
        /\ \A k \in 1..Len(loads) :
             (loads[k].pc = "done" /\ loads[k].layer = loads[l].layer) =>
               loads[k].value = loads[l].value

\* C17: the cache entry of a layer is at every point absent or the whole
\* value one loader call returned; it changes only in the step in which a
\* call of that layer returns (or by invalidateCache), and then to that
\* call's value, also when an earlier concurrent call has written already:
\* the last writer's value stays.
C17_LastWriteWins ==
  /\ [](\A layerId \in DOMAIN dataCache :
          \E l \in 1..Len(loads) :
            /\ loads[l].layer = layerId /\ loads[l].pc = "done"
            /\ loads[l].value = << dataCache[layerId] >>)
  /\ [][\A layerId \in DOMAIN dataCache' :
          (layerId \notin DOMAIN dataCache \/ dataCache'[layerId] # dataCache[layerId]) =>
            \E l \in 1..Len(loads') :
              /\ loads'[l].layer = layerId /\ loads'[l].pc = "done"
              /\ l > Len(loads) \/ loads[l].pc = "fetch"
              /\ loads'[l].value = << dataCache'[layerId] >>]_vars

\* Two calls for traffic both fetched and returned different arrays; a
\* third call, made after both, was served the first call's array: the
\* first call wrote last.
C17_Witness ==
  /\ calls = 0 /\ Len(loads) = 3
  /\ \A l \in 1..3 : loads[l].layer = "traffic" /\ loads[l].pc = "done"
  /\ loads[1].source /\ loads[2].source /\ ~loads[3].source
  /\ loads[1].value # loads[2].value
  /\ loads[3].value = loads[1].value
  /\ << dataCache["traffic"] >> = loads[1].value

\* C18: the step in which a fetching loader call fails (the response is
\* not ok) writes nothing to the cache; a layer none of whose loader calls
\* has returned a value has no cache entry; and a call of the layer's
\* loader made while the layer has no entry fetches the URL anew.
C18_RefusedFetchLeavesNoEntry ==
  /\ [][\A l \in 1..Len(loads) :
          (loads[l].pc = "fetch" /\ loads'[l].pc = "failed") => dataCache' = dataCache]_vars
  /\ [](\A layerId \in LoadIds :
          (\A l \in 1..Len(loads) : loads[l].layer = layerId => loads[l].pc # "done") =>
            layerId \notin DOMAIN dataCache)
  /\ [][(LoadCall("loadStreetData", "traffic") /\ "traffic" \notin DOMAIN dataCache) =>
          /\ loads'[Len(loads')].pc = "fetch"
          /\ loads'[Len(loads')].source]_vars

\* The first fetch of traffic was refused and left no entry; a second call
\* fetched again, was answered with an array and cached it.
C18_Witness ==
  /\ calls = 0 /\ Len(loads) = 2
  /\ loads[1].layer = "traffic" /\ loads[1].pc = "failed" /\ loads[1].source
  /\ loads[2].layer = "traffic" /\ loads[2].pc = "done" /\ loads[2].source
  /\ "traffic" \in DOMAIN dataCache /\ dataCache["traffic"].type = "array"

\* C20: invalidateCache(id) removes the entry of id and leaves every other
\* entry as it was, whatever string id is; invalidateCache() removes all
\* entries; and the next call of the loader of a layer whose entry was
\* removed resolves the source again.
C20_InvalidateRemovesExactly ==
  [][/\ \A layerId \in LoadIds \cup {""} :
          Invalidate(layerId) => dataCache' = Without(dataCache, layerId)
     /\ Invalidate(Omitted) => dataCache' = EmptyCache
     /\ \A fn \in LOADERS, layerId \in LoadIds :
          (LoadCall(fn, layerId) /\ calls > 0 /\ layerId \notin DOMAIN dataCache
             /\ loads'[Len(loads')].pc # "failed") =>
            loads'[Len(loads')].source]_vars

(***************************************************************************)
(* Properties of the controller and the registry together (Spec)           *)
(***************************************************************************)
\* C19: the step in which the fetch of an activation is answered with
\* success and an object where an array is expected adds no entry to the
\* registry cache nor to dataCacheRef, fails the activation and leaves the
\* active id none.
C19_MalformedPayloadFails ==
  [][\A a \in 1..Len(acts) :
       (acts[a].pc = "load" /\ Becomes(FetchResolved(St, a, JsonObject))) =>
         /\ DOMAIN dataCache' = DOMAIN dataCache
         /\ DOMAIN dataCacheRef' = DOMAIN dataCacheRef
         /\ acts'[a].pc = "failed"
         /\ activeLayerId' = "none"]_vars

(***************************************************************************)
(* Properties of the grid engine and of the grid renderer                  *)
(***************************************************************************)
\* The raster intensity sampleGrid reads for cell k (row-major, 1-based) of
\* the walkability grid: the pixel under the cell's centre, clamped to 255.
SampledIntensity ==
  [k \in 1..(DEFAULT_GRID_RESOLUTION * DEFAULT_GRID_RESOLUTION) |->
     LET n == DEFAULT_GRID_RESOLUTION
         px == ((2 * ((k - 1) % n) + 1) * KDE_CANVAS_SIZE) \div (2 * n)
         py == ((2 * ((k - 1) \div n) + 1) * KDE_CANVAS_SIZE) \div (2 * n)
     IN  Min(255, Composite(generateWalkabilityData, Len(generateWalkabilityData),
                            px, py, KDE_CANVAS_SIZE, DEFAULT_BLUR_RADIUS, SfBounds))]

\* A step computed the walkability grid and stored it in dataCacheRef.
GridComputed ==
  /\ "walkability" \in DOMAIN dataCacheRef'
  /\ "walkability" \notin DOMAIN dataCacheRef

\* C21: every grid the engine computes has rows * cols cells in row-major
\* order; a cell is absent when its sampled intensity (clamped to 255) is
\* below the threshold and otherwise is the LUT entry at that intensity for
\* the layer's colour scale and the opacity the grid was configured with.
C21_SampledCellsFollowLut ==
  [][GridComputed =>
       LET grid == dataCacheRef'["walkability"]
           config == getLayerConfig("walkability")
       IN  /\ Len(grid.cells) = grid.rows * grid.cols
           /\ \A k \in 1..Len(grid.cells) :
                grid.cells[k] =
                  IF SampledIntensity[k] < config.minIntensityThreshold
                    THEN NullCell
                    ELSE LutEntry(config.colorScale, opacity', SampledIntensity[k])]_vars

\* The row-major indices (1-based) of the non-absent cells of a grid.
PresentCells(grid) ==
  SelectSeq([k \in 1..(grid.rows * grid.cols) |-> k],
            LAMBDA k : grid.cells[k] # NullCell)

\* C22: the descriptor list the grid renderer builds has exactly one entry
\* per non-absent cell, in row-major order, each with that cell's colour;
\* and when a render completes the pool holds as many primitives as the
\* list has entries, so none stands for an absent cell.
C22_NoPrimitiveForAbsentCell ==
  [][/\ \A grid \in Grids :
          (rend[1].kind = "grid" /\ Render(grid)) =>
            LET cells == runs'[Len(runs')].cells
                present == PresentCells(grid)
            IN  /\ Len(cells) = Len(present)
                /\ \A j \in 1..Len(present) :
                     /\ cells[j].color = grid.cells[present[j]]
                     /\ cells[j].coords =
                          CellRing(grid.bounds, grid.rows, grid.cols,
                                   (present[j] - 1) \div grid.cols,
                                   (present[j] - 1) % grid.cols)
     /\ \A k \in 1..Len(runs) :
          (rend[1].kind = "grid" /\ Suspended(k) /\ runs'[k].pc = "done") =>
            /\ Len(rend'[1].pool) = Len(runs[k].cells)
            /\ Cardinality({ id \in scene' : id[1] = 1 }) = Len(runs[k].cells)]_vars

\* The render of a grid with absent and non-absent cells has completed and
\* the pool holds one primitive per non-absent cell.
C22_Witness ==
  /\ rend[1].kind = "grid"
  /\ rend[1].renderAbort # 0
  /\ LET run == runs[rend[1].renderAbort]
     IN  /\ run.pc = "done" /\ ~run.aborted
         /\ \E grid \in Grids :
              /\ \E k \in 1..Len(grid.cells) : grid.cells[k] = NullCell
              /\ Len(PresentCells(grid)) > 1
              /\ Len(rend[1].pool) = Len(PresentCells(grid))
              /\ \A j \in 1..Len(rend[1].pool) :
                   rend[1].pool[j].color = grid.cells[PresentCells(grid)[j]]

(***************************************************************************)
(* Properties of the colour LUT builder (SpecL)                            *)
(***************************************************************************)
\* No clearColorCache() call was made between the calls i and j.
NoClearBetween(i, j) == \A m \in (i + 1)..(j - 1) : lutCalls[m].op = "build"

\* C23: of two buildColorLUT calls with identical (scale, opacity), with
\* any buildColorLUT calls in between, the second returns the table the
\* first returned, entry by entry over 0..255, and does not compute it.
C23_RepeatedBuildServedFromCache ==
  \A i, j \in 1..Len(lutCalls) :
    (/\ i < j
     /\ lutCalls[i].op = "build" /\ lutCalls[j].op = "build"
     /\ lutCalls[i].scaleId = lutCalls[j].scaleId
     /\ lutCalls[i].opacity = lutCalls[j].opacity
     /\ NoClearBetween(i, j)) =>
      /\ ~lutCalls[j].computed
      /\ \A x \in 0..255 : LutAt(lutCalls[j].lut, x) = LutAt(lutCalls[i].lut, x)

\* A (scale, opacity) was built, then the same scale at another opacity,
\* then the first again, which was served from the cache.
C23_Witness ==
  /\ Len(lutCalls) = 3
  /\ \A m \in 1..3 : lutCalls[m].op = "build" /\ lutCalls[m].scaleId = "thermal"
  /\ lutCalls[1].opacity = 200 /\ lutCalls[2].opacity = DEFAULT_LAYER_OPACITY
  /\ lutCalls[3].opacity = 200
  /\ lutCalls[1].computed /\ lutCalls[2].computed /\ ~lutCalls[3].computed

\* C24: the table a buildColorLUT call returns has, at every index
\* 0..255, the red, green and blue of the table every earlier call returned
\* for the same scale, whatever the two opacities (they differ in alpha
\* only); and every table returned has alpha 0 at index 0.
C24_OpacityChangesAlphaOnly ==
  LET j == Len(lutCalls)
  IN  (j > 0 /\ lutCalls[j].op = "build") =>
        /\ LutAt(lutCalls[j].lut, 0)[4] = 0
        /\ \A i \in 1..(j - 1) :
             (lutCalls[i].op = "build" /\ lutCalls[i].scaleId = lutCalls[j].scaleId) =>
               \A x \in 0..255 :
                 LET a == LutAt(lutCalls[i].lut, x)
                     b == LutAt(lutCalls[j].lut, x)
                 IN  <<a[1], a[2], a[3]>> = <<b[1], b[2], b[3]>>

\* One scale was built at two opacities with different cache keys: the
\* tables differ in alpha at index 255 and agree in colour there.
C24_Witness ==
  \E i, j \in 1..Len(lutCalls) :
    /\ lutCalls[i].op = "build" /\ lutCalls[j].op = "build"
    /\ lutCalls[i].scaleId = lutCalls[j].scaleId
    /\ lutCalls[i].opacity = 200 /\ lutCalls[j].opacity = 1000
    /\ lutCalls[i].computed /\ lutCalls[j].computed
    /\ LutAt(lutCalls[i].lut, 255)[4] = 200
    /\ LutAt(lutCalls[j].lut, 255)[4] = 1000
    /\ LutAt(lutCalls[i].lut, 255)[1] = LutAt(lutCalls[j].lut, 255)[1]

\* C25: Renderer.setOpacity(v), on any of the three renderers, sets the
\* alpha of each pooled primitive to exactly v when its alpha before the
\* call was positive and to 0 when it was 0.
C25_SetOpacityAlpha ==
  [][\A v \in RendererOpacityValues :
       SetRendererOpacity(v) =>
         \A i \in 1..Len(rend[1].pool) :
           rend'[1].pool[i].color[4] =
             IF rend[1].pool[i].color[4] > 0 THEN v ELSE 0]_vars

\* The two cases in one pool: setOpacity(0) was called between two batches
\* of a render, so the primitives of the first batch had alpha 0 and those
\* of the second a positive one; setOpacity(0.2) then left the first at 0
\* and set the others to 0.200.
C25_Witness ==
  /\ calls = MaxCalls
  /\ \E i, j \in 1..Len(rend[1].pool) :
       /\ rend[1].pool[i].color[4] = 0
       /\ rend[1].pool[j].color[4] = 200
       /\ rend[1].pool[j].color[1] # 255
  /\ rend[1].kind # "grid" /\ rend[1].opacity = 200

\* Run k takes a step (from the library await or from a frame) without
\* having been cancelled: it applies a batch and suspends again or completes.
RunAdvances(k) ==
  /\ Suspended(k) /\ ~runs[k].aborted
  /\ runs'[k].pc \in {"frame", "done"}
  /\ runs'[k].pc # runs[k].pc \/ runs'[k].idx # runs[k].idx

\* C26: a render of n descriptors onto a pool of size p.  At every step of
\* the run the primitives at the indices present before and after keep
\* their identity and stay attached (recycled in place, never detached and
\* recreated), primitives are added only at the tail, newly made and
\* attached, and none is detached before the run completes; between steps
\* the pool has max(p, descriptors applied) primitives.  The completing
\* step leaves exactly n, every one carrying its descriptor, having
\* detached the tail past n: over the run max(0, n - p) are created and
\* max(0, p - n) detached.
C26_RecycleCreateTrim ==
  [][\A k \in 1..Len(runs) :
       RunAdvances(k) =>
         LET r == runs[k].rid
             before == rend[r].pool
             after == rend'[r].pool
             n == runs[k].n
             p == IF runs[k].pc = "import" THEN Len(before) ELSE runs[k].poolSize
             done == runs'[k].pc = "done"
             AtLeast(a, b) == IF a >= b THEN a ELSE b
         IN  /\ runs[k].pc = "frame" => Len(before) = AtLeast(p, runs[k].idx)
             /\ Len(after) = IF done THEN n ELSE AtLeast(p, runs'[k].idx)
             /\ \A i \in 1..Min(Len(before), Len(after)) :
                  after[i].id = before[i].id /\ after[i].id \in scene'
             /\ \A i \in (Len(before) + 1)..Len(after) :
                  /\ after[i].id \notin scene
                  /\ after[i].id \in scene'
                  /\ after[i].id[2] > rend[r].made
             /\ rend'[r].made - rend[r].made = AtLeast(0, Len(after) - Len(before))
             /\ \A i \in (Len(after) + 1)..Len(before) : before[i].id \notin scene'
             /\ Cardinality(scene') - Cardinality(scene) = Len(after) - Len(before)
             /\ ~done => Len(after) >= Len(before)
             /\ done => \A i \in 1..n : Carries(after[i], runs[k].cells[i], runs[k].recolored)]_vars

\* Three awaited renders: a short one, a longer one that recycled the
\* first's primitives and created the rest over several batches, and a short
\* one again that kept the first primitive and detached the tail.
C26_Witness ==
  /\ Len(runs) = 3
  /\ \A k \in 1..3 : runs[k].pc = "done" /\ runs[k].over = "none"
  /\ runs[1].n > 0 /\ runs[1].n < runs[2].n
  /\ runs[2].n > runs[1].n + POLYGON_BATCH_SIZE
  /\ runs[3].n = runs[1].n
  /\ Len(rend[1].pool) = runs[3].n
  /\ rend[1].made = runs[2].n
  /\ \A i \in 1..Len(rend[1].pool) : rend[1].pool[i].id = <<1, i>>

\* C27: between two consecutive suspension points a run that is not
\* cancelled creates or recycles the primitives of one batch, at most
\* POLYGON_BATCH_SIZE of them, each given its descriptor, and touches no
\* other primitive that stays pooled; it then waits for a frame when
\* descriptors are left and completes without waiting when none is.  So a
\* run waiting for a frame has applied a whole number of batches (at least
\* one) and has descriptors left: one frame between consecutive batches,
\* none after the last.
C27_OneBatchPerFrame ==
  [][\A k \in 1..Len(runs) :
       RunAdvances(k) =>
         LET r == runs[k].rid
             before == rend[r].pool
             after == rend'[r].pool
             n == runs[k].n
             idx == runs[k].idx
             batch == (idx + 1)..Min(idx + POLYGON_BATCH_SIZE, n)
         IN  /\ Cardinality(batch) <= POLYGON_BATCH_SIZE
             /\ \A i \in batch :
                  /\ after[i].coords = runs[k].cells[i].coords
                  /\ after[i].color = runs[k].cells[i].color
             /\ \A i \in 1..Min(Len(before), Len(after)) : i \notin batch => after[i] = before[i]
             /\ \A i \in 1..Len(after) : i > Len(before) => i \in batch
             /\ runs[k].pc = "frame" =>
                  idx > 0 /\ idx < n /\ idx % POLYGON_BATCH_SIZE = 0
             /\ IF n - idx > POLYGON_BATCH_SIZE
                  THEN runs'[k].pc = "frame" /\ runs'[k].idx = idx + POLYGON_BATCH_SIZE
                  ELSE runs'[k].pc = "done"]_vars

\* A run of more than two batches waits for its second frame with two
\* batches applied, and a run of that length has completed before it.
C27_Witness ==
  \E k \in 1..Len(runs) :
    /\ runs[k].pc = "frame" /\ ~runs[k].aborted
    /\ runs[k].idx = 2 * POLYGON_BATCH_SIZE
    /\ runs[k].n > 2 * POLYGON_BATCH_SIZE
    /\ k > 1 /\ runs[k - 1].pc = "done" /\ runs[k - 1].n = runs[k].n

\* C28: toggleLayer(id) called while the map element is null changes
\* nothing: active id, loading flag, dataCacheRef and rendererRef stay as
\* they were, no activation and no render starts, no renderer is made or
\* cleared, and no data load is started (the registry cache is untouched).
C28_NoSurfaceNoChange ==
  [][\A layerId \in RegisteredIds :
       (ToggleLayer(layerId) /\ mapElement = 0) =>
         /\ activeLayerId' = activeLayerId
         /\ isLoading' = isLoading
         /\ dataCacheRef' = dataCacheRef
         /\ rendererRef' = rendererRef
         /\ acts' = acts
         /\ dataCache' = dataCache
         /\ rend' = rend /\ runs' = runs /\ scene' = scene]_vars

\* Calls were made on the hook around an activation of the layer restored
\* from the URL, one of them with the map element null; the map element is
\* null again, the layer is still the active id and its data is cached.
C28_Witness ==
  /\ calls = MaxOps
  /\ mapElement = 0
  /\ activeLayerId = "traffic"
  /\ "traffic" \in DOMAIN dataCacheRef
  /\ Len(acts) = 1 /\ acts[1].pc = "done"
  /\ rendererRef = 0 /\ scene = {}
  /\ ~isLoading

KdePixels ==
  LET n == DEFAULT_GRID_RESOLUTION
      cx == KDE_CANVAS_SIZE \div (2 * n)
  IN  { <<cx + 6 * dx, cx + 6 * dy>> : dx, dy \in -4..5 }
        \cup { <<((2 * col + 1) * KDE_CANVAS_SIZE) \div (2 * n),
                 ((2 * row + 1) * KDE_CANVAS_SIZE) \div (2 * n)>> : row, col \in 0..(n - 1) }

\* The raster intensity renderKDE accumulates at a pixel for a point list.
RasterAt(points, pixel) ==
  Composite(points, Len(points), pixel[1], pixel[2], KDE_CANVAS_SIZE,
            DEFAULT_BLUR_RADIUS, SfBounds)

\* Two point lists are permutations of each other (their points are
\* distinct).
Permuted(l1, l2) ==
  /\ Len(l1) = Len(l2)
  /\ { l1[i] : i \in 1..Len(l1) } = { l2[i] : i \in 1..Len(l2) }

\* C30: the grid computeHeatmapGrid returns for a list of points is the
\* grid it returned for every permutation of the list passed before, and
\* the accumulated raster intensity (saturating at 255) is the same at
\* every pixel compared.
C30_PointOrderIrrelevant ==
  LET j == Len(kdeCalls)
  IN  \A i \in 1..(j - 1) :
        Permuted(kdeCalls[i].points, kdeCalls[j].points) =>
          /\ kdeCalls[j].grid = kdeCalls[i].grid
          /\ \A pixel \in KdePixels :
               RasterAt(kdeCalls[j].points, pixel) = RasterAt(kdeCalls[i].points, pixel)

\* The three overlapping points were passed in two different orders; the
\* raster is saturated under the first cell's centre, below 255 somewhere
\* in the overlap, and the cell is coloured.
C30_Witness ==
  /\ Len(kdeCalls) = 2
  /\ Len(kdeCalls[1].points) = 3
  /\ Permuted(kdeCalls[1].points, kdeCalls[2].points)
  /\ kdeCalls[1].points[1] # kdeCalls[2].points[1]
  /\ kdeCalls[1].points[3] # kdeCalls[2].points[3]
  /\ \A i \in 1..3 : kdeCalls[1].points[i].intensity >= 40
  /\ kdeCalls[2].grid.cells[1] # NullCell
  /\ \E pixel \in KdePixels :
       /\ RasterAt(kdeCalls[2].points, pixel) = 255
       /\ \A i \in 1..3 : RasterAt(<<kdeCalls[2].points[i]>>, pixel) \in 1..254
  /\ \E pixel \in KdePixels : RasterAt(kdeCalls[2].points, pixel) \in 1..254

(***************************************************************************)
(* Properties of the controller under interleaving (Spec)                  *)
(***************************************************************************)
\* C31: whenever the active id is none and no activation is in flight, no
\* primitive is attached to the map.
C31_NoneActiveNothingAttached ==
  (activeLayerId = "none" /\ NoneInFlight) => scene = {}

\* Activation a (of layer A) was superseded by the later activation b of
\* another layer, started by a toggle while a was still in flight.
Superseded(a, b) ==
  /\ a < b /\ b <= Len(acts)
  /\ acts[a].layer # acts[b].layer
  /\ acts[b].rid # 0

\* C32: when the activation of layer A fails after layer B was toggled on,
\* the failing step leaves B's renderer as it was (not cleared, still the
\* live one) and the active id B, and B's activation is not disturbed.
C32_FailureAffectsOnlyItsLayer ==
  [][\A a \in 1..Len(acts) :
       \A b \in (a + 1)..Len(acts) :
         ( /\ Superseded(a, b)
           /\ b = Len(acts)
           /\ InFlight(a) /\ acts'[a].pc = "failed"
           /\ activeLayerId = acts[b].layer /\ rendererRef = acts[b].rid ) =>
           /\ activeLayerId' = acts[b].layer
           /\ rendererRef' = acts[b].rid
           /\ rend'[acts[b].rid] = rend[acts[b].rid]
           /\ \A id \in scene : id[1] = acts[b].rid => id \in scene'
           /\ acts'[b] = acts[b]]_vars

\* C33: the loading flag is true in every state in which some activation
\* is in flight (awaiting its data load or inside its render).
C33_LoadingWhileInFlight ==
  (~NoneInFlight) => isLoading

\* C34: whenever the activation of the grid layer completes, the grid it
\* rendered is the grid computed at the controller's current opacity.
C34_GridAtCurrentOpacity ==
  [][\A k \in 1..Len(runs) :
       ( /\ Suspended(k) /\ runs'[k].pc = "done"
         /\ runs[k].act # 0
         /\ acts[runs[k].act].layer = "walkability"
         /\ acts'[runs[k].act].pc = "done" ) =>
         runs[k].cells = buildCellData(GridAt(opacity'))]_vars

\* C35: whatever calls came before, the table buildColorLUT(scale, o)
\* returns has alpha i/255 * o (to three decimals) at every index i; two
\* opacities that agree to two decimals do not receive each other's table.
C35_TableBuiltAtRequestedOpacity ==
  \A c \in 1..Len(lutCalls) :
    lutCalls[c].op = "build" =>
      \A i \in {0, 128, 255} :
        LutAt(lutCalls[c].lut, i)[4] = LutAlpha(i, lutCalls[c].opacity)

\* C36: setOpacity(0) followed by setOpacity(v), v > 0, gives every pooled
\* primitive whose alpha was positive before the first call the alpha v:
\* once setOpacity(0) has acted, the colour setOpacity(v) writes for such a
\* primitive has alpha v.
C36_SetOpacityReversible ==
  [][SetRendererOpacity(0) =>
       \A v \in RendererOpacityValues \ {0} :
         \A i \in 1..Len(rend[1].pool) :
           rend[1].pool[i].color[4] > 0 =>
             Recolor(rend'[1].pool[i].color, v)[4] = v]_vars

\* C37: setOpacity(v) was called on a street or intersection renderer while
\* a render was in flight.  When that render completes, every pooled
\* primitive with a non-zero alpha either has alpha v or carries an entry
\* of the table built at v; none carries an entry built at the old opacity.
C37_InFlightRenderFollowsOpacity ==
  [][\A k \in 1..Len(runs) :
       ( /\ rend[1].kind # "grid"
         /\ Suspended(k) /\ ~runs[k].aborted /\ runs[k].recolored
         /\ runs'[k].pc = "done" ) =>
         \A i \in 1..Len(rend'[1].pool) :
           LET color == rend'[1].pool[i].color
           IN  color[4] > 0 =>
                 \/ color[4] = rend'[1].opacity
                 \/ \E j \in 0..255 :
                      color = LutEntry(rend'[1].colorScale, rend'[1].opacity, j)]_vars


(***************************************************************************)
\* --- a street or intersection renderer by itself (SpecV) ---
\* As SpecR, with the renderer constructed at either opacity and opacities
\* set that agree to two decimals.
InitV ==
  /\ \E kind \in RendererKinds \ {"grid"}, o \in OpacityValues :
       rend = << NewRenderer(kind, IF kind = "intersections" THEN "inferno" ELSE "thermal", o) >>
  /\ runs = <<>>
  /\ scene = {}
  /\ lutCache = EmptyCache
  /\ dataCache = EmptyCache
  /\ mapElement = 1
  /\ activeLayerId = "none"
  /\ opacity = DEFAULT_LAYER_OPACITY
  /\ isLoading = FALSE
  /\ rendererRef = 0
  /\ dataCacheRef = EmptyCache
  /\ restoredRef = FALSE
  /\ acts = <<>>
  /\ calls = 0
  /\ loads = <<>>
  /\ lutCalls = <<>>
  /\ kdeCalls = <<>>

NextV ==
  \/ \E data \in DataFor(rend[1].kind) : Render(data)
  \/ Clear
  \/ \E v \in GridOpacityValues : SetRendererOpacity(v)
  \/ \E k \in 1..Len(runs) : ImportResolve(k)
  \/ \E k \in 1..Len(runs) : ImportFail(k)
  \/ \E k \in 1..Len(runs) : FrameFire(k)

SpecV == InitV /\ [][NextV]_vars

\* C38: a render() of a street or intersection renderer colours the
\* primitive of every element with the entry round(255 * score) of the
\* table for the renderer's scale at the opacity most recently set.
C38_RenderUsesLatestOpacity ==
  [][( Len(runs') = Len(runs) + 1 /\ rend[1].kind # "grid" ) =>
       \E data \in DataFor(rend[1].kind) :
         LET lut == [scale |-> rend[1].colorScale, opacity |-> rend[1].opacity]
         IN  runs'[Len(runs')].cells =
               IF rend[1].kind = "streets" THEN StreetCells(data.items, lut)
               ELSE IntersectionCells(data.items, lut)]_vars


\* C39: loadStreetData(id) fails for every id that is not a streets
\* source and loadIntersectionData(id) for every id that is not an
\* intersections source, whatever the cache holds.
C39_LoaderRejectsOtherShape ==
  \A l \in 1..Len(loads) :
    LET shape == CASE loads[l].fn = "loadStreetData" -> "streets"
                   [] loads[l].fn = "loadIntersectionData" -> "intersections"
                   [] OTHER -> "any"
        matches == /\ loads[l].layer \in RegisteredIds
                   /\ RegistryEntry(loads[l].layer).source.type = shape
    IN  (shape # "any" /\ ~matches) => loads[l].pc = "failed"

=============================================================================
